---- MODULE Spec2Model ----
(***************************************************************************)
(* A model of the gaiagps command line client (gaiagps/shell.py and        *)
(* gaiagps/util.py): object selection (find_objects), the move command and *)
(* the bulk edit of waypoints (_dump_for_edit / _load_for_edit).           *)
(*                                                                         *)
(* Ids are the integers 1..NumItems, ordered as the id strings are.        *)
(* A python dict is a function whose DOMAIN is the set of its keys.        *)
(***************************************************************************)
EXTENDS Integers, Sequences, FiniteSets, TLC

VARIABLES
    server,     \* waypoint id -> the full object the server returns for it
    wpts,       \* edit: the working set, a sequence of ids (sorted by id)
    file,       \* edit: the content of the snapshot file
    snap,       \* edit: the content _dump_for_edit wrote (history of file)
    pc,         \* edit: "idle", "fetch", "put" or "done"
    pos,        \* edit: the position _load_for_edit is at (1-based)
    pending,    \* edit: the object _load_for_edit is about to put
    trace,      \* the calls made on the client, and the changes other
                \* actors made on the server, in the order they happened
    getObjs,    \* edit: the objects _load_for_edit fetched, by position
    putObjs,    \* the objects passed to put_object, in order
    out,        \* what the command printed, in order
    err,        \* the exception that ended the command, "" when none
    rc,         \* the exit status of the command
    nEdits,     \* number of changes made to the file by its editor
    nExt,       \* number of changes made on the server by another actor
    objs,       \* what client.list_objects returns for the command's type
    args,       \* the arguments of the command that ran
    found,      \* what find_objects did in that command
    sel,        \* edit: the ids find_objects gave, in the order it gave them
    mtime,      \* edit: the modification time of the snapshot file
    orig_mtime, \* edit: the modification time read before the editor ran
    verbose,    \* whether the command was given --verbose
    folders,    \* tree: what client.list_objects('folder') returned
    tree,       \* tree: node -> its dict; node 0 is the root make_tree made,
                \* node i the dict of folder i; a subfolder map holds the
                \* nodes it refers to, in the order they were inserted
    todo        \* tree: the nodes resolve_tree has still to be called on

vars ==
    <<server, wpts, file, snap, pc, pos, pending, trace, getObjs, putObjs,
      out, err, rc, nEdits, nExt, objs, args, found, sel, mtime, orig_mtime,
      verbose, folders, tree, todo>>

editVars ==
    <<server, wpts, file, snap, pos, pending, getObjs, putObjs, nEdits,
      nExt>>

cmdVars ==
    <<objs, args, found>>

sessionVars ==
    <<sel, mtime, orig_mtime, verbose>>

treeVars ==
    <<folders, tree, todo>>

---------------------------------------------------------------------------
(* Bounds of the model *)

NumItems ==
    2

\* Changes made by the environment while an edit is under way: by the editor
\* of the snapshot file and by other actors on the server, together
MaxEnv ==
    2

\* The number of folders the server lists
MaxFolders ==
    3

Ids ==
    1 .. NumItems

\* Values of the title property: 0 as created, 1 typed by the editor of the
\* file, 2 set by another actor.
Titles ==
    {0, 1, 2}

\* The revision tokens the editor of the file types into a record: the one a
\* new item carries and the one it carries after one change by another actor
Revs ==
    {1, 2}

---------------------------------------------------------------------------
(* Python dict helpers *)

DictSet(d, k, v) ==
    [x \in (DOMAIN d) \cup {k} |-> IF x = k THEN v ELSE d[x]]

DictDel(d, k) ==
    [x \in (DOMAIN d) \ {k} |-> d[x]]

DictUpdate(d, e) ==
    [x \in (DOMAIN d) \cup (DOMAIN e) |-> IF x \in DOMAIN e THEN e[x] ELSE d[x]]

DictOnly(d, keys) ==
    [x \in (DOMAIN d) \cap keys |-> d[x]]

RECURSIVE InsertById(_, _)
InsertById(s, x) ==
    IF s = << >> THEN <<x>>
    ELSE IF x < Head(s) THEN <<x>> \o s
    ELSE <<Head(s)>> \o InsertById(Tail(s), x)

\* The working set left in the order find_objects gave
sorted_by_id_as_found(s) ==
    s

RECURSIVE sorted_by_id(_)
\* sorted(wpts, key=lambda w: w['id']); python's sort is stable
sorted_by_id(s) ==
    IF s = << >> THEN << >>
    ELSE InsertById(sorted_by_id(SubSeq(s, 1, Len(s) - 1)), s[Len(s)])

---------------------------------------------------------------------------
(* Command.find_objects *)

\* Scale of the clock: datetime.timedelta(hours=24) and timedelta(seconds=1)
\* in ticks
Day ==
    4

Second ==
    2

Days ==
    {0, 1}

\* DateRange.__call__: (start, end) of 'D1' or 'D1:D2'; the end is the last
\* second of its day
DateRange(d1, d2) ==
    [given |-> TRUE, start |-> d1 * Day, end |-> d2 * Day + Day - Second]

\* date_range=None
NoRange ==
    [given |-> FALSE, start |-> 0, end |-> 0]

\* A name given on the command line: is_id tells an identifier by its shape
\* (32 or 36 hexadecimal digits and hyphens)
IdSelector(i) ==
    [kind |-> "id", id |-> i, name |-> ""]

NameSelector(n) ==
    [kind |-> "name", id |-> 0, name |-> n]

is_id(idstr) ==
    idstr.kind = "id"

\* re.search(pattern, title) for the titles "a" and "b" and the patterns "a",
\* "b" and "."
re_search(pattern, title) ==
    pattern = "." \/ pattern = title

NotFound ==
    [exc |-> "NotFound", objs |-> << >>]

Safety ==
    [exc |-> "_Safety", objs |-> << >>]

Found(os) ==
    [exc |-> "", objs |-> os]

NoFound ==
    [exc |-> "not called", objs |-> << >>]

\* apiclient.find(objs, 'id', value) and apiclient.find(objs, 'title', value):
\* the first object with that value, NotFound when there is none
find_id(os, value) ==
    LET hit(o) == o.id = value
    IN  IF SelectSeq(os, hit) = << >> THEN NotFound
        ELSE Found(<<Head(SelectSeq(os, hit))>>)

find_title(os, value) ==
    LET hit(o) == o.title = value
    IN  IF SelectSeq(os, hit) = << >> THEN NotFound
        ELSE Found(<<Head(SelectSeq(os, hit))>>)

\* apiclient.match(objs, 'title', pattern): every object whose title matches
match_title(os, pattern) ==
    LET hit(o) == re_search(pattern, o.title)
    IN  Found(SelectSeq(os, hit))

\* util.date_parse: the datestamp of the object or of its properties, None
\* when there is none
date_parse(item) ==
    IF "time_created" \in DOMAIN item
    THEN [none |-> FALSE, t |-> item.time_created]
    ELSE IF "time_created" \in DOMAIN item.properties
    THEN [none |-> FALSE, t |-> item.properties.time_created]
    ELSE [none |-> TRUE, t |-> 0]

\* _match_date leaving out the objects created in the last second of the range
_match_date_before_end(item, date_range) ==
    LET item_dt == date_parse(item)
    IN  IF ~item_dt.none
        THEN item_dt.t >= date_range.start /\ item_dt.t < date_range.end
        ELSE FALSE

_match_date(item, date_range) ==
    LET item_dt == date_parse(item)
    IN  IF ~item_dt.none
        THEN item_dt.t >= date_range.start /\ item_dt.t <= date_range.end
        ELSE FALSE

RECURSIVE matched_objs_of_skip(_, _, _)
\* The loop going on to the next name when find raises NotFound
matched_objs_of_skip(os, names_or_ids, match) ==
    IF names_or_ids = << >> THEN Found(<< >>)
    ELSE LET name_or_id == Head(names_or_ids)
             one == IF is_id(name_or_id) THEN find_id(os, name_or_id.id)
                    ELSE IF match THEN match_title(os, name_or_id.name)
                    ELSE find_title(os, name_or_id.name)
             rest == matched_objs_of_skip(os, Tail(names_or_ids), match)
         IN  Found(one.objs \o rest.objs)

RECURSIVE matched_objs_of_no_match(_, _, _)
\* The loop taking every name for an exact title, --match or not
matched_objs_of_no_match(os, names_or_ids, match) ==
    IF names_or_ids = << >> THEN Found(<< >>)
    ELSE LET name_or_id == Head(names_or_ids)
             one == IF is_id(name_or_id) THEN find_id(os, name_or_id.id)
                    ELSE find_title(os, name_or_id.name)
             rest == matched_objs_of_no_match(os, Tail(names_or_ids), match)
         IN  IF one.exc # "" THEN one
             ELSE IF rest.exc # "" THEN rest
             ELSE Found(one.objs \o rest.objs)

RECURSIVE matched_objs_of(_, _, _)
\* The loop over names_or_ids; an exception of find ends it
matched_objs_of(os, names_or_ids, match) ==
    IF names_or_ids = << >> THEN Found(<< >>)
    ELSE LET name_or_id == Head(names_or_ids)
             one == IF is_id(name_or_id) THEN find_id(os, name_or_id.id)
                    ELSE IF match THEN match_title(os, name_or_id.name)
                    ELSE find_title(os, name_or_id.name)
             rest == matched_objs_of(os, Tail(names_or_ids), match)
         IN  IF one.exc # "" THEN one
             ELSE IF rest.exc # "" THEN rest
             ELSE Found(one.objs \o rest.objs)

\* find_objects refusing only when no date range was given at all
find_objects_no_count(os, names_or_ids, match, date_range) ==
    LET all == IF names_or_ids # << >>
               THEN matched_objs_of(os, names_or_ids, match)
               ELSE Found(os)
        keep(x) == _match_date(x, date_range)
    IN  IF all.exc # "" THEN all
        ELSE IF date_range.given THEN Found(SelectSeq(all.objs, keep))
        ELSE IF names_or_ids = << >> THEN Safety
        ELSE Found(all.objs)

find_objects(os, names_or_ids, match, date_range) ==
    LET all == IF names_or_ids # << >>
               THEN matched_objs_of(os, names_or_ids, match)
               ELSE Found(os)
        keep(x) == _match_date(x, date_range)
        matched_objs == IF date_range.given
                        THEN SelectSeq(all.objs, keep)
                        ELSE all.objs
    IN  IF all.exc # "" THEN all
        ELSE IF names_or_ids = << >> /\ Len(matched_objs) = Len(os)
        THEN Safety
        ELSE Found(matched_objs)

---------------------------------------------------------------------------
(* Command.move, with the exit status main gives it *)

\* The folders on the server: client.get_object('folder', name=...) finds
\* one by its title or raises NotFound
Folders ==
    {[id |-> "F1", name |-> "folder1"]}

folder_found(destination) ==
    \E f \in Folders : f.name = destination

get_folder(destination) ==
    CHOOSE f \in Folders : f.name = destination

NoArgs ==
    [cmd |-> "", name |-> << >>, match |-> FALSE, match_date |-> NoRange,
     destination |-> "", dry_run |-> FALSE]

\* The calls of the loop over to_move when the destination is "/"
RECURSIVE to_root_calls(_)
to_root_calls(to_move) ==
    IF to_move = << >> THEN << >>
    ELSE LET obj == Head(to_move)
         IN  (IF obj.folder # ""
              THEN <<[op |-> "remove_object_from_folder", by |-> "move",
                      folder |-> obj.folder, id |-> obj.id]>>
              ELSE << >>)
             \o to_root_calls(Tail(to_move))

to_folder_calls(to_move, folder) ==
    [i \in 1 .. Len(to_move) |->
        [op |-> "add_object_to_folder", by |-> "move", folder |-> folder.id,
         id |-> to_move[i].id]]

Result(calls, msgs, e, status) ==
    [calls |-> calls, out |-> msgs, err |-> e, rc |-> status]

DryRunOut(dry_run) ==
    IF dry_run THEN <<[msg |-> "Dry run", pos |-> 0]>> ELSE << >>

\* Command.move from 'if args.destination == "/"' on: to_move is not empty
move_objects(a, to_move) ==
    IF a.destination = "/"
    THEN Result(IF a.dry_run THEN << >> ELSE to_root_calls(to_move),
                DryRunOut(a.dry_run), "", 0)
    ELSE IF ~folder_found(a.destination)
    THEN \* get_object raises NotFound, main catches it
         Result(<< >>, << >>, "NotFound", 1)
    ELSE Result(IF a.dry_run THEN << >>
                ELSE to_folder_calls(to_move, get_folder(a.destination)),
                DryRunOut(a.dry_run), "", 0)

\* Command.move looking the destination up only after the objects were moved
move_result_late_lookup(a, to_move) ==
    IF to_move.exc = "_Safety"
    THEN Result(<< >>, <<[msg |-> "Specify name(s) or filter criteria",
                          pos |-> 0]>>, "", 1)
    ELSE IF to_move.exc # ""
    THEN Result(<< >>, << >>, to_move.exc, 1)
    ELSE IF to_move.objs = << >>
    THEN Result(<< >>, << >>, "", 0)
    ELSE IF a.destination # "/" /\ ~folder_found(a.destination)
    THEN Result(to_folder_calls(to_move.objs, [id |-> a.destination]),
                << >>, "NotFound", 1)
    ELSE move_objects(a, to_move.objs)

\* Command.move on what find_objects gave, with the status main returns
move_result(a, to_move) ==
    IF to_move.exc = "_Safety"
    THEN Result(<< >>, <<[msg |-> "Specify name(s) or filter criteria",
                          pos |-> 0]>>, "", 1)
    ELSE IF to_move.exc # ""
    THEN \* main catches apiclient.NotFound
         Result(<< >>, << >>, to_move.exc, 1)
    ELSE IF to_move.objs = << >>
    THEN Result(<< >>, << >>, "", 0)
    ELSE move_objects(a, to_move.objs)

move(a) ==
    LET to_move == find_objects(objs, a.name, a.match, a.match_date)
        r == move_result(a, to_move)
    IN  /\ args' = a
        /\ found' = to_move
        /\ pc' = "done"
        /\ trace' = r.calls
        /\ out' = r.out
        /\ err' = r.err
        /\ rc' = r.rc

\* The names a command is given: the id of the first object, an id no object
\* has, the titles "a" and "b", and "." (a pattern matching every title)
Selectors ==
    {IdSelector(1), IdSelector(NumItems + 1)}
    \cup {NameSelector(n) : n \in {"a", "b", "."}}

SelectorLists ==
    {<< >>} \cup {<<x>> : x \in Selectors}
    \cup {<<x, y>> : x \in Selectors, y \in Selectors}

DateRanges ==
    {NoRange, DateRange(0, 0), DateRange(0, 1)}

Move ==
    /\ pc = "idle"
    /\ \E name \in SelectorLists, match \in BOOLEAN,
          match_date \in DateRanges,
          destination \in {"/", "folder1", "foobar"}, dry_run \in BOOLEAN :
         move([cmd |-> "move", name |-> name, match |-> match,
               match_date |-> match_date, destination |-> destination,
               dry_run |-> dry_run])
    /\ UNCHANGED <<objs, editVars, sessionVars, treeVars>>

\* The delete_object calls of the loop of Command.remove (waypoints and
\* tracks: _confirm_recursive is for folders only)
to_remove_calls(to_remove) ==
    [i \in 1 .. Len(to_remove) |->
        [op |-> "delete_object", by |-> "remove", folder |-> "",
         id |-> to_remove[i].id]]

\* Command.remove answering a selector that matched nothing with status 0
remove_result_missing_ok(a, to_remove) ==
    IF to_remove.exc # ""
    THEN Result(<< >>, << >>, to_remove.exc, 0)
    ELSE Result(IF a.dry_run THEN << >> ELSE to_remove_calls(to_remove.objs),
                DryRunOut(a.dry_run), "", 0)

\* Command.remove on what find_objects gave, with the status main returns:
\* remove catches no exception of find_objects
remove_result(a, to_remove) ==
    IF to_remove.exc # ""
    THEN Result(<< >>, << >>, to_remove.exc, 1)
    ELSE Result(IF a.dry_run THEN << >> ELSE to_remove_calls(to_remove.objs),
                DryRunOut(a.dry_run), "", 0)

remove(a) ==
    LET to_remove == find_objects(objs, a.name, a.match, NoRange)
        r == remove_result(a, to_remove)
    IN  /\ args' = a
        /\ found' = to_remove
        /\ pc' = "done"
        /\ trace' = r.calls
        /\ out' = r.out
        /\ err' = r.err
        /\ rc' = r.rc

\* remove takes one name or more (nargs='+')
Remove ==
    /\ pc = "idle"
    /\ \E name \in SelectorLists \ {<< >>}, match \in BOOLEAN,
          dry_run \in BOOLEAN :
         remove([cmd |-> "remove", name |-> name, match |-> match,
                 match_date |-> NoRange, destination |-> "",
                 dry_run |-> dry_run])
    /\ UNCHANGED <<objs, editVars, sessionVars, treeVars>>

\* Command._archive with one set_objects_archive call for each object
archive_result_each(a, to_hit, archive) ==
    IF to_hit.exc = "_Safety"
    THEN Result(<< >>, <<[msg |-> "Specify name(s) or filter criteria",
                          pos |-> 0]>>, "", 1)
    ELSE IF to_hit.exc # ""
    THEN Result(<< >>, << >>, to_hit.exc, 1)
    ELSE IF ~a.dry_run
    THEN Result([k \in 1 .. Len(to_hit.objs) |->
                   [op |-> "set_objects_archive", by |-> "archive",
                    folder |-> "", id |-> 0,
                    ids |-> <<to_hit.objs[k].id>>, archive |-> archive]],
                << >>, "", 0)
    ELSE Result(<< >>, DryRunOut(TRUE), "", 0)

\* Command._archive on what find_objects gave: one set_objects_archive call
\* for all the objects found
archive_result(a, to_hit, archive) ==
    IF to_hit.exc = "_Safety"
    THEN Result(<< >>, <<[msg |-> "Specify name(s) or filter criteria",
                          pos |-> 0]>>, "", 1)
    ELSE IF to_hit.exc # ""
    THEN \* main catches apiclient.NotFound
         Result(<< >>, << >>, to_hit.exc, 1)
    ELSE IF to_hit.objs = << >>
    THEN Result(<< >>, << >>, "", 0)
    ELSE IF ~a.dry_run
    THEN Result(<<[op |-> "set_objects_archive", by |-> "archive",
                   folder |-> "", id |-> 0,
                   ids |-> [i \in 1 .. Len(to_hit.objs) |-> to_hit.objs[i].id],
                   archive |-> archive]>>, << >>, "", 0)
    ELSE Result(<< >>, DryRunOut(TRUE), "", 0)

_archive(a, archive) ==
    LET to_hit == find_objects(objs, a.name, a.match, a.match_date)
        r == archive_result(a, to_hit, archive)
    IN  /\ args' = a
        /\ found' = to_hit
        /\ pc' = "done"
        /\ trace' = r.calls
        /\ out' = r.out
        /\ err' = r.err
        /\ rc' = r.rc

\* Command.archive and Command.unarchive
Archive ==
    /\ pc = "idle"
    /\ \E name \in SelectorLists, match \in BOOLEAN,
          match_date \in DateRanges, dry_run \in BOOLEAN,
          archive \in BOOLEAN :
         _archive([cmd |-> IF archive THEN "archive" ELSE "unarchive",
                   name |-> name, match |-> match, match_date |-> match_date,
                   destination |-> "", dry_run |-> dry_run], archive)
    /\ UNCHANGED <<objs, editVars, sessionVars, treeVars>>

\* Command.get_object(name_or_id): by id when the argument looks like one,
\* by title otherwise
command_get_object(os, name_or_id) ==
    IF is_id(name_or_id) THEN find_id(os, name_or_id.id)
    ELSE find_title(os, name_or_id.name)

\* A call on the client with its outcome
Call(op, by, folder, id, ok) ==
    [op |-> op, by |-> by, folder |-> folder, id |-> id, ok |-> ok]

\* Command.rename putting the object whether --dry-run was given or not
rename_result_always_puts(a, obj, put_ok) ==
    IF obj.exc # ""
    THEN Result(<< >>, << >>, obj.exc, 1)
    ELSE Result(<<Call("put_object", "rename", "", obj.objs[1].id, put_ok)>>,
                DryRunOut(a.dry_run), "", 0)

\* Command.rename of a waypoint or a track on what get_object gave
rename_result(a, obj, put_ok) ==
    IF obj.exc # ""
    THEN \* main catches apiclient.NotFound
         Result(<< >>, << >>, obj.exc, 1)
    ELSE IF a.dry_run
    THEN Result(<< >>, DryRunOut(TRUE), "", 0)
    ELSE IF put_ok
    THEN Result(<<Call("put_object", "rename", "", obj.objs[1].id, TRUE)>>,
                << >>, "", 0)
    ELSE Result(<<Call("put_object", "rename", "", obj.objs[1].id, FALSE)>>,
                <<[msg |-> "Failed to rename", pos |-> 0]>>, "", 1)

Rename ==
    /\ pc = "idle"
    /\ \E name \in Selectors, dry_run \in BOOLEAN, put_ok \in BOOLEAN :
         LET a == [cmd |-> "rename", name |-> <<name>>, match |-> FALSE,
                   match_date |-> NoRange, destination |-> "",
                   dry_run |-> dry_run]
             obj == command_get_object(objs, name)
             r == rename_result(a, obj, put_ok)
         IN  /\ args' = a
             /\ found' = obj
             /\ pc' = "done"
             /\ trace' = r.calls
             /\ out' = r.out
             /\ err' = r.err
             /\ rc' = r.rc
    /\ UNCHANGED <<objs, editVars, sessionVars, treeVars>>

\* The id of the object create_object returns
Created(objtype) ==
    IF objtype = "waypoint" THEN "new waypoint" ELSE "new folder"

\* The folder names --existing-folder and --new-folder are given: none, a
\* folder the server has, a folder it has not
FolderNames ==
    {"", "folder1", "foobar"}

\* The folder the waypoint goes to, "" when there is none: --new-folder
\* replaces the one --existing-folder named, also when create_object
\* returned nothing
add_to_folder(a, folder_ok) ==
    IF a.new_folder # ""
    THEN (IF a.dry_run THEN "dry-run"
          ELSE IF folder_ok THEN Created("folder") ELSE "")
    ELSE IF a.existing_folder # ""
    THEN get_folder(a.existing_folder).id
    ELSE ""

\* Waypoint.add creating the new folder before the waypoint
waypoint_add_folder_first(a, valid, wpt_ok, folder_ok) ==
    IF ~valid
    THEN Result(<< >>, <<[msg |-> "Unable to add waypoint", pos |-> 0]>>,
                "", 1)
    ELSE IF a.existing_folder # "" /\ ~folder_found(a.existing_folder)
    THEN Result(<<Call("get_object", "add", a.existing_folder, "", FALSE)>>,
                << >>, "NotFound", 1)
    ELSE LET lookup == IF a.existing_folder # ""
                       THEN <<Call("get_object", "add", a.existing_folder,
                                   "", TRUE)>>
                       ELSE << >>
             mkdir == IF a.new_folder # "" /\ ~a.dry_run
                      THEN <<Call("create_object", "add", "",
                                  Created("folder"), folder_ok)>>
                      ELSE << >>
             create == IF a.dry_run THEN << >>
                       ELSE <<Call("create_object", "add", "",
                                   Created("waypoint"), wpt_ok)>>
             folder == add_to_folder(a, folder_ok)
             add == IF folder # "" /\ ~a.dry_run
                    THEN <<Call("add_object_to_folder", "add", folder,
                                Created("waypoint"), TRUE)>>
                    ELSE << >>
         IN  IF ~a.dry_run /\ ~wpt_ok
             THEN Result(lookup \o mkdir \o create,
                         <<[msg |-> "Failed to create waypoint", pos |-> 0]>>,
                         "", 1)
             ELSE Result(lookup \o mkdir \o create \o add,
                         DryRunOut(a.dry_run), "", 0)

\* Waypoint.add: valid is whether the coordinates validate, wpt_ok and
\* folder_ok whether create_object returns an object for the waypoint and
\* for the new folder
waypoint_add(a, valid, wpt_ok, folder_ok) ==
    IF ~valid
    THEN Result(<< >>, <<[msg |-> "Unable to add waypoint", pos |-> 0]>>,
                "", 1)
    ELSE IF a.existing_folder # "" /\ ~folder_found(a.existing_folder)
    THEN \* get_object raises NotFound, main catches it
         Result(<<Call("get_object", "add", a.existing_folder, "", FALSE)>>,
                << >>, "NotFound", 1)
    ELSE LET lookup == IF a.existing_folder # ""
                       THEN <<Call("get_object", "add", a.existing_folder,
                                   "", TRUE)>>
                       ELSE << >>
             create == IF a.dry_run THEN << >>
                       ELSE <<Call("create_object", "add", "",
                                   Created("waypoint"), wpt_ok)>>
             mkdir == IF a.new_folder # "" /\ ~a.dry_run
                      THEN <<Call("create_object", "add", "",
                                  Created("folder"), folder_ok)>>
                      ELSE << >>
             folder == add_to_folder(a, folder_ok)
             add == IF folder # "" /\ ~a.dry_run
                    THEN <<Call("add_object_to_folder", "add", folder,
                                Created("waypoint"), TRUE)>>
                    ELSE << >>
         IN  IF ~a.dry_run /\ ~wpt_ok
             THEN Result(lookup \o create,
                         <<[msg |-> "Failed to create waypoint", pos |-> 0]>>,
                         "", 1)
             ELSE Result(lookup \o create \o mkdir \o add,
                         DryRunOut(a.dry_run), "", 0)

WaypointAdd ==
    /\ pc = "idle"
    /\ \E existing_folder \in FolderNames, new_folder \in FolderNames,
          dry_run \in BOOLEAN, valid \in BOOLEAN, wpt_ok \in BOOLEAN,
          folder_ok \in BOOLEAN :
         LET a == [cmd |-> "waypoint add", name |-> << >>, match |-> FALSE,
                   match_date |-> NoRange, destination |-> "",
                   dry_run |-> dry_run, existing_folder |-> existing_folder,
                   new_folder |-> new_folder, valid |-> valid]
             r == waypoint_add(a, valid, wpt_ok, folder_ok)
         IN  /\ args' = a
             /\ found' = NoFound
             /\ pc' = "done"
             /\ trace' = r.calls
             /\ out' = r.out
             /\ err' = r.err
             /\ rc' = r.rc
    /\ UNCHANGED <<objs, editVars, sessionVars, treeVars>>

\* Folder.add: new_ok and add_ok are whether create_object and
\* add_object_to_folder return an object
folder_add(a, new_ok, add_ok) ==
    IF a.existing_folder # "" /\ ~folder_found(a.existing_folder)
    THEN Result(<<Call("get_object", "add", a.existing_folder, "", FALSE)>>,
                << >>, "NotFound", 1)
    ELSE LET lookup == IF a.existing_folder # ""
                       THEN <<Call("get_object", "add", a.existing_folder,
                                   "", TRUE)>>
                       ELSE << >>
             create == IF a.dry_run THEN << >>
                       ELSE <<Call("create_object", "add", "",
                                   Created("folder"), new_ok)>>
             add == IF a.existing_folder # "" /\ ~a.dry_run
                    THEN <<Call("add_object_to_folder", "add",
                                get_folder(a.existing_folder).id,
                                Created("folder"), add_ok)>>
                    ELSE << >>
         IN  IF ~a.dry_run /\ ~new_ok
             THEN Result(lookup \o create,
                         <<[msg |-> "Failed to add folder", pos |-> 0]>>,
                         "", 1)
             ELSE Result(lookup \o create \o add,
                         IF a.existing_folder # "" /\ ~a.dry_run /\ ~add_ok
                         THEN <<[msg |-> "Created folder, but failed to add",
                                 pos |-> 0]>>
                         ELSE << >>,
                         "", 0)

FolderAdd ==
    /\ pc = "idle"
    /\ \E existing_folder \in FolderNames, dry_run \in BOOLEAN,
          new_ok \in BOOLEAN, add_ok \in BOOLEAN :
         LET a == [cmd |-> "folder add", name |-> << >>, match |-> FALSE,
                   match_date |-> NoRange, destination |-> "",
                   dry_run |-> dry_run, existing_folder |-> existing_folder,
                   new_folder |-> "", valid |-> TRUE]
             r == folder_add(a, new_ok, add_ok)
         IN  /\ args' = a
             /\ found' = NoFound
             /\ pc' = "done"
             /\ trace' = r.calls
             /\ out' = r.out
             /\ err' = r.err
             /\ rc' = r.rc
    /\ UNCHANGED <<objs, editVars, sessionVars, treeVars>>

\* What a folder of the listing holds: nothing, or something of one kind
FolderContents ==
    {[tracks |-> << >>, waypoints |-> << >>, children |-> << >>,
      maps |-> << >>],
     [tracks |-> <<1>>, waypoints |-> << >>, children |-> << >>,
      maps |-> << >>],
     [tracks |-> << >>, waypoints |-> <<1>>, children |-> << >>,
      maps |-> << >>],
     [tracks |-> << >>, waypoints |-> << >>, children |-> <<1>>,
      maps |-> << >>],
     [tracks |-> << >>, waypoints |-> << >>, children |-> << >>,
      maps |-> <<1>>]}

\* A folder as client.list_objects('folder') gives it
ListedFolders(i) ==
    {[id |-> i, title |-> t, folder |-> "", properties |-> << >>,
      tracks |-> c.tracks, waypoints |-> c.waypoints,
      children |-> c.children, maps |-> c.maps] :
        t \in {"a", "b"}, c \in FolderContents}

FolderListings ==
    UNION {{os \in [1 .. n -> UNION {ListedFolders(i) : i \in Ids}] :
               \A i \in 1 .. n : os[i].id = i} : n \in 0 .. NumItems}

\* What the user types at the prompt, as a sequence of characters
Answers ==
    {<<"y">>, <<" ", "Y", "e", "s", " ">>, <<"n">>, << >>}

RECURSIVE lstrip(_)
lstrip(answer) ==
    IF answer # << >> /\ Head(answer) = " " THEN lstrip(Tail(answer))
    ELSE answer

RECURSIVE rstrip(_)
rstrip(answer) ==
    IF answer # << >> /\ answer[Len(answer)] = " "
    THEN rstrip(SubSeq(answer, 1, Len(answer) - 1))
    ELSE answer

\* str.strip
strip(answer) ==
    rstrip(lstrip(answer))

\* str.lower, for the letters of the answers
lower(answer) ==
    [k \in DOMAIN answer |->
        IF answer[k] = "Y" THEN "y"
        ELSE IF answer[k] = "E" THEN "e"
        ELSE IF answer[k] = "S" THEN "s"
        ELSE IF answer[k] = "N" THEN "n"
        ELSE answer[k]]

sub_objs ==
    {"tracks", "waypoints", "children", "maps"}

\* _confirm_recursive asking about folders that hold tracks or waypoints only
_confirm_recursive_flat(a, obj) ==
    IF \E o \in {"tracks", "waypoints"} : obj[o] # << >>
    THEN IF a.force THEN [ok |-> TRUE, out |-> << >>]
         ELSE IF a.tty
         THEN [ok |-> lower(strip(a.answers[obj.id]))
                      \in {<<"y">>, <<"y", "e", "s">>},
               out |-> << >>]
         ELSE [ok |-> FALSE,
               out |-> <<[msg |-> "is not empty; skipping", pos |-> obj.id]>>]
    ELSE [ok |-> TRUE, out |-> << >>]

\* Command._confirm_recursive: whether to remove the folder, and what is
\* printed. a.tty is os.isatty(sys.stdin.fileno()), a.answers[i] what
\* input() returns when asked about folder i.
_confirm_recursive(a, obj) ==
    IF \E o \in sub_objs : obj[o] # << >>
    THEN IF a.force THEN [ok |-> TRUE, out |-> << >>]
         ELSE IF a.tty
         THEN [ok |-> lower(strip(a.answers[obj.id]))
                      \in {<<"y">>, <<"y", "e", "s">>},
               out |-> << >>]
         ELSE [ok |-> FALSE,
               out |-> <<[msg |-> "is not empty; skipping", pos |-> obj.id]>>]
    ELSE [ok |-> TRUE, out |-> << >>]

RECURSIVE folder_remove_loop(_, _)
\* The loop of Command.remove for objtype 'folder': calls and output
folder_remove_loop(a, to_remove) ==
    IF to_remove = << >> THEN [calls |-> << >>, out |-> << >>]
    ELSE LET obj == Head(to_remove)
             c == _confirm_recursive(a, obj)
             rest == folder_remove_loop(a, Tail(to_remove))
         IN  [calls |-> (IF c.ok /\ ~a.dry_run
                         THEN <<[op |-> "delete_object", by |-> "remove",
                                 folder |-> "", id |-> obj.id]>>
                         ELSE << >>) \o rest.calls,
              out |-> c.out \o rest.out]

\* Command.remove for folders on what find_objects gave
folder_remove_result(a, to_remove) ==
    IF to_remove.exc # ""
    THEN Result(<< >>, << >>, to_remove.exc, 1)
    ELSE LET r == folder_remove_loop(a, to_remove.objs)
         IN  Result(r.calls, r.out \o DryRunOut(a.dry_run), "", 0)

\* The names folder remove is given
FolderSelectorLists ==
    {<<x>> : x \in Selectors}
    \cup {<<NameSelector("a"), NameSelector("b")>>}

NoAnswers ==
    [i \in Ids |-> << >>]

FolderRemove ==
    /\ pc = "idle"
    /\ \E name \in FolderSelectorLists, match \in BOOLEAN,
          dry_run \in BOOLEAN, force \in BOOLEAN, tty \in BOOLEAN,
          answers \in [Ids -> Answers] :
         /\ (force \/ ~tty) => answers = NoAnswers
         /\ LET a == [cmd |-> "folder remove", name |-> name,
                      match |-> match, match_date |-> NoRange,
                      destination |-> "", dry_run |-> dry_run,
                      force |-> force, tty |-> tty, answers |-> answers]
                to_remove == find_objects(objs, a.name, a.match, NoRange)
                r == folder_remove_result(a, to_remove)
            IN  /\ args' = a
                /\ found' = to_remove
                /\ pc' = "done"
                /\ trace' = r.calls
                /\ out' = r.out
                /\ err' = r.err
                /\ rc' = r.rc
    /\ UNCHANGED <<objs, editVars, sessionVars, treeVars>>

\* The folder the server made for an uploaded file, as upload_file returns
\* it and as list_objects('folder') describes it
UploadFolders ==
    {[id |-> "upload", waypoints |-> w, tracks |-> t] :
        w \in {<< >>, <<1>>, <<1, 2>>}, t \in {<< >>, <<1>>}}

\* upload_file returned nothing: the upload is queued at the server
Queued ==
    [id |-> "", waypoints |-> << >>, tracks |-> << >>]

\* The existing folder as list_objects('folder') describes it
UploadListings ==
    {<<[id |-> f.id, title |-> f.name, waypoints |-> w, tracks |-> t]>> :
        f \in Folders, w \in {<< >>, <<3>>}, t \in {<< >>, <<3>>}}

\* The destination folder as list_objects('folder') describes it: the folder
\* just created, or the existing one
dst_folder_desc_of(os, a) ==
    IF a.new_folder # ""
    THEN [id |-> Created("folder"), title |-> a.new_folder,
          waypoints |-> << >>, tracks |-> << >>]
    ELSE find_id(os, get_folder(a.existing_folder).id).objs[1]

\* The upload folder removed whether the destination was updated or not
move_uploaded_then_delete(dst_folder_desc, new_folder, put_ok) ==
    LET moved == [dst_folder_desc EXCEPT
                    !.waypoints = @ \o new_folder.waypoints,
                    !.tracks = @ \o new_folder.tracks]
        put == [op |-> "put_object", by |-> "upload", folder |-> "",
                id |-> dst_folder_desc.id, ok |-> put_ok, obj |-> moved]
    IN  Result(<<put, Call("delete_object", "upload", "", new_folder.id,
                           TRUE)>>,
               IF put_ok THEN << >>
               ELSE <<[msg |-> "Failed to move", pos |-> 0]>>,
               "", IF put_ok THEN 0 ELSE 1)

\* The calls of Upload.default from the put on: the update of the
\* destination, then the removal of the upload folder
move_uploaded(dst_folder_desc, new_folder, put_ok) ==
    LET moved == [dst_folder_desc EXCEPT
                    !.waypoints = @ \o new_folder.waypoints,
                    !.tracks = @ \o new_folder.tracks]
        put == [op |-> "put_object", by |-> "upload", folder |-> "",
                id |-> dst_folder_desc.id, ok |-> put_ok, obj |-> moved]
    IN  IF ~put_ok
        THEN Result(<<put>>, <<[msg |-> "Failed to move", pos |-> 0]>>, "", 1)
        ELSE Result(<<put, Call("delete_object", "upload", "",
                                new_folder.id, TRUE)>>, << >>, "", 0)

\* Result r with the calls before put in front of its own
After(before, r) ==
    Result(before \o r.calls, r.out, r.err, r.rc)

\* Upload.default. new_folder is what upload_file returned, folder_ok
\* whether create_object returned a folder, listed whether the listing of
\* folders has the upload folder, put_ok whether put_object returned the
\* folder.
upload(os, a, new_folder, folder_ok, listed, put_ok) ==
    IF a.existing_folder # "" /\ ~folder_found(a.existing_folder)
    THEN Result(<<Call("get_object", "upload", a.existing_folder, "",
                       FALSE)>>, << >>, "NotFound", 1)
    ELSE LET lookup == IF a.existing_folder # ""
                       THEN <<Call("get_object", "upload",
                                   a.existing_folder, "", TRUE)>>
                       ELSE << >>
             up == <<Call("upload_file", "upload", "", new_folder.id,
                          new_folder # Queued)>>
             mkdir == IF a.new_folder # ""
                      THEN <<Call("create_object", "upload", "",
                                  Created("folder"), folder_ok)>>
                      ELSE << >>
             list == <<Call("list_objects", "upload", "", "", TRUE)>>
         IN  IF new_folder = Queued
             THEN Result(lookup \o up,
                         <<[msg |-> "File upload has been queued",
                            pos |-> 0]>>
                         \o (IF a.existing_folder # ""
                             THEN <<[msg |-> "Unable to move", pos |-> 0]>>
                             ELSE << >>),
                         "", 0)
             ELSE IF a.new_folder # "" /\ ~folder_ok
             THEN Result(lookup \o up \o mkdir,
                         <<[msg |-> "failed to create folder", pos |-> 0]>>,
                         "", 1)
             ELSE IF a.new_folder = "" /\ a.existing_folder = ""
             THEN Result(lookup \o up, << >>, "", 0)
             ELSE IF ~listed
             THEN \* apiclient.find raises NotFound, main catches it
                  Result(lookup \o up \o mkdir \o list, << >>, "NotFound", 1)
             ELSE After(lookup \o up \o mkdir \o list,
                        move_uploaded(dst_folder_desc_of(os, a), new_folder,
                                      put_ok))

Upload ==
    /\ pc = "idle"
    /\ \E existing_folder \in FolderNames, new_folder \in {"", "bar"},
          uploaded \in UploadFolders \cup {Queued}, folder_ok \in BOOLEAN,
          listed \in BOOLEAN, put_ok \in BOOLEAN :
         LET a == [cmd |-> "upload", name |-> << >>, match |-> FALSE,
                   match_date |-> NoRange, destination |-> "",
                   dry_run |-> FALSE, existing_folder |-> existing_folder,
                   new_folder |-> new_folder, uploaded |-> uploaded]
             r == upload(objs, a, uploaded, folder_ok, listed, put_ok)
         IN  /\ args' = a
             /\ found' = NoFound
             /\ pc' = "done"
             /\ trace' = r.calls
             /\ out' = r.out
             /\ err' = r.err
             /\ rc' = r.rc
    /\ UNCHANGED <<objs, editVars, sessionVars, treeVars>>

\* The objects a listing can hold: a title, the folder the object is in ("" at
\* the root), and a datestamp or none
ListedObjects(i) ==
    {[id |-> i, title |-> t, folder |-> f, properties |-> << >>] :
        t \in {"a", "b"}, f \in {"", "F1"}}
    \cup {[id |-> i, title |-> t, folder |-> f,
           properties |-> [time_created |-> d * Day]] :
        t \in {"a", "b"}, f \in {"", "F1"}, d \in Days}

Listings ==
    UNION {{os \in [1 .. n -> UNION {ListedObjects(i) : i \in Ids}] :
               \A i \in 1 .. n : os[i].id = i} : n \in 0 .. NumItems}

---------------------------------------------------------------------------
(* The schema of the edit command *)

\* editable = {'id': True, 'properties': ['icon', 'notes', 'public', 'title',
\*                                        'revision']}
\* whole: the value is True; keys: the list otherwise.
editable ==
    [id |-> [whole |-> TRUE, keys |-> {}],
     properties |-> [whole |-> FALSE,
                     keys |-> {"icon", "notes", "public", "title", "revision"}]]

\* A waypoint as the server holds it. time_created and geometry are not
\* editable. hasrev: whether the object carries a revision token.
Waypoint(i, hasrev) ==
    [id |-> i,
     properties |-> IF hasrev
                    THEN [title |-> 0, revision |-> 1, time_created |-> 0]
                    ELSE [title |-> 0, time_created |-> 0],
     geometry |-> 0]

\* client.get_object(objtype, id_=i)
get_object(i) ==
    server[i]

\* The snapshot file: kind "list" when yaml.load gives a list (recs holds its
\* records), "mapping" when it gives something else, "missing" when there is
\* no file to open.
ListFile(recs) ==
    [kind |-> "list", recs |-> recs]

NotAList ==
    [kind |-> "mapping", recs |-> << >>]

NoFile ==
    [kind |-> "missing", recs |-> << >>]

---------------------------------------------------------------------------
(* Waypoint._dump_for_edit *)

\* The projection copying every key of a nested mapping
editable_object_of_all(wpt) ==
    [top_key \in DOMAIN editable |-> wpt[top_key]]

editable_object_of(wpt) ==
    [top_key \in DOMAIN editable |->
        IF editable[top_key].whole
        THEN wpt[top_key]
        ELSE DictOnly(wpt[top_key], editable[top_key].keys)]

dump_for_edit(ws) ==
    [i \in 1 .. Len(ws) |-> editable_object_of(get_object(ws[i]))]

\* The else branch of Waypoint.edit: neither --interactive nor --file
EditDump ==
    /\ pc = "idle"
    /\ snap = NoFile
    /\ file' = ListFile(dump_for_edit(wpts))
    /\ snap' = file'
    /\ trace' = trace \o [i \in 1 .. Len(wpts) |->
                            [op |-> "get_object", by |-> "dump", pos |-> i,
                             id |-> wpts[i], ok |-> TRUE]]
    /\ UNCHANGED <<cmdVars, sessionVars, treeVars>>
    /\ UNCHANGED <<server, wpts, pc, pos, pending, getObjs, putObjs, out,
                   err, rc, nEdits, nExt>>

---------------------------------------------------------------------------
(* The environment: the editor of the file and other actors on the server *)

\* One change of record i of the file by whoever edits it
EditedRecords(recs, i) ==
    LET rec == recs[i]
        hasp == "properties" \in DOMAIN rec
        props == IF hasp THEN rec.properties ELSE << >>
        withp(p) == [recs EXCEPT ![i] = DictSet(rec, "properties", p)]
    IN  (IF hasp
         THEN {withp(DictSet(props, "title", 1))}
              \cup {withp(DictSet(props, "revision", r)) : r \in Revs}
              \cup {withp(DictDel(props, "revision"))}
              \cup {withp(DictSet(props, "bogus", 0))}
              \cup {[recs EXCEPT ![i] = DictDel(rec, "properties")]}
         ELSE {})
        \cup {[recs EXCEPT ![i] = DictSet(rec, "foo", 0)]}
        \cup {[recs EXCEPT ![i] = DictSet(rec, "id", j)] : j \in Ids}
        \cup {[recs EXCEPT ![i] = DictDel(rec, "id")]}

EditRecord ==
    /\ pc = "idle"
    /\ file.kind = "list"
    /\ nEdits + nExt < MaxEnv
    /\ \E i \in 1 .. Len(file.recs) :
         \E recs \in EditedRecords(file.recs, i) :
            /\ recs # file.recs
            /\ file' = ListFile(recs)
    /\ nEdits' = nEdits + 1
    /\ UNCHANGED <<cmdVars, sessionVars, treeVars>>
    /\ UNCHANGED <<server, wpts, snap, pc, pos, pending, trace, getObjs,
                   putObjs, out, err, rc, nExt>>

\* The editor removes the last record, repeats it, or leaves no list at all
EditShape ==
    /\ pc = "idle"
    /\ file.kind = "list"
    /\ nEdits + nExt < MaxEnv
    /\ \/ /\ Len(file.recs) > 0
          /\ file' = ListFile(SubSeq(file.recs, 1, Len(file.recs) - 1))
       \/ /\ Len(file.recs) > 0
          /\ file' = ListFile(Append(file.recs, file.recs[Len(file.recs)]))
       \/ file' = NotAList
    /\ nEdits' = nEdits + 1
    /\ UNCHANGED <<cmdVars, sessionVars, treeVars>>
    /\ UNCHANGED <<server, wpts, snap, pc, pos, pending, trace, getObjs,
                   putObjs, out, err, rc, nExt>>

\* Another actor changes waypoint i on the server: the server gives it the
\* next revision token.
ExternalChange ==
    /\ pc # "done"
    /\ nEdits + nExt < MaxEnv
    /\ \E i \in Ids :
         LET p == server[i].properties
             q == DictSet(p, "title", 2)
         IN  /\ server' = [server EXCEPT ![i].properties =
                              IF "revision" \in DOMAIN p
                              THEN DictSet(q, "revision", p.revision + 1)
                              ELSE q]
             /\ trace' = Append(trace, [op |-> "external_change",
                                        by |-> "other", pos |-> 0, id |-> i,
                                        ok |-> TRUE])
    /\ nExt' = nExt + 1
    /\ UNCHANGED <<cmdVars, sessionVars, treeVars>>
    /\ UNCHANGED <<wpts, file, snap, pc, pos, pending, getObjs, putObjs, out,
                   err, rc, nEdits>>

---------------------------------------------------------------------------
(* Waypoint._load_for_edit, called by Waypoint.edit with --file *)

\* The command ends: _load_for_edit raised e and edit printed it and
\* returned 1, or _load_for_edit returned and edit returned None (status 0).
Raise(e) ==
    /\ pc' = "done"
    /\ err' = e
    /\ rc' = 1

Return ==
    /\ pc' = "done"
    /\ err' = ""
    /\ rc' = 0

\* rev_match taking the record for current unless the server's revision is
\* the older of the two
rev_match_not_older(w1, w2) ==
    /\ "revision" \in DOMAIN w1.properties
    /\ "properties" \in DOMAIN w2
    /\ "revision" \in DOMAIN w2.properties
    /\ w1.properties.revision >= w2.properties.revision

\* rev_match accepting whatever revision the record holds
rev_match_any(w1, w2) ==
    /\ "revision" \in DOMAIN w1.properties
    /\ "properties" \in DOMAIN w2
    /\ "revision" \in DOMAIN w2.properties

\* def rev_match(w1, w2): a KeyError on either side gives False
rev_match(w1, w2) ==
    /\ "properties" \in DOMAIN w1
    /\ "properties" \in DOMAIN w2
    /\ "revision" \in DOMAIN w1.properties
    /\ "revision" \in DOMAIN w2.properties
    /\ w1.properties.revision = w2.properties.revision

\* The id check left out
id_differs_never(wpt, editable_object) ==
    FALSE

\* editable_object.get('id') differs from wpt['id'] (None when absent)
id_differs(wpt, editable_object) ==
    \/ "id" \notin DOMAIN editable_object
    \/ wpt.id # editable_object.id

\* Only the top-level keys of a record checked
invalid_key_top_only(editable_object) ==
    \E top_key \in DOMAIN editable_object : top_key \notin DOMAIN editable

\* The loops over the keys of a record raise 'Invalid key'
invalid_key(editable_object) ==
    \/ \E top_key \in DOMAIN editable_object : top_key \notin DOMAIN editable
    \/ \E top_key \in (DOMAIN editable_object) \cap (DOMAIN editable) :
          /\ ~editable[top_key].whole
          /\ \E key \in DOMAIN editable_object[top_key] :
                key \notin editable[top_key].keys

\* wpt[top_key] = editable_object[top_key] in place of the copy key by key
merged_whole(wpt, editable_object) ==
    [top_key \in DOMAIN wpt |->
        IF top_key \in DOMAIN editable_object /\ top_key \in DOMAIN editable
           /\ ~editable[top_key].whole
        THEN editable_object[top_key]
        ELSE wpt[top_key]]

\* wpt[top_key][key] = val for every key of every list-typed top key
merged(wpt, editable_object) ==
    [top_key \in DOMAIN wpt |->
        IF top_key \in DOMAIN editable_object /\ top_key \in DOMAIN editable
           /\ ~editable[top_key].whole
        THEN DictUpdate(wpt[top_key], editable_object[top_key])
        ELSE wpt[top_key]]

\* LoadStart without the comparison of the two lengths
LoadStart_no_count ==
    /\ pc = "idle"
    /\ pos' = 1
    /\ IF file.kind = "missing" THEN Raise("FileNotFoundError")
       ELSE IF file.kind # "list" THEN Raise("top level YAML must be a list")
       ELSE IF Len(file.recs) = 0 THEN Return
       ELSE pc' = "fetch" /\ UNCHANGED <<err, rc>>
    /\ UNCHANGED <<cmdVars, sessionVars, treeVars>>
    /\ UNCHANGED <<server, wpts, file, snap, pending, trace, getObjs,
                   putObjs, out, nEdits, nExt>>

\* open, yaml.load and the two checks on the shape of the file
LoadStart ==
    /\ pc = "idle"
    /\ pos' = 1
    /\ IF file.kind = "missing" THEN Raise("FileNotFoundError")
       ELSE IF file.kind # "list" THEN Raise("top level YAML must be a list")
       ELSE IF Len(file.recs) # Len(wpts) THEN Raise("item count")
       ELSE IF Len(file.recs) = 0 THEN Return
       ELSE pc' = "fetch" /\ UNCHANGED <<err, rc>>
    /\ UNCHANGED <<cmdVars, sessionVars, treeVars>>
    /\ UNCHANGED <<server, wpts, file, snap, pending, trace, getObjs,
                   putObjs, out, nEdits, nExt>>

\* The loop goes on to the next record, or ends
NextRecord ==
    /\ pos' = pos + 1
    /\ IF pos = Len(file.recs)
       THEN Return
       ELSE pc' = "fetch" /\ UNCHANGED <<err, rc>>

\* One pass of the loop up to the put: get_object, the revision check, the
\* id check and the copy of the record's values into the fetched object
LoadFetch ==
    /\ pc = "fetch"
    /\ LET editable_object == file.recs[pos]
           wpt == get_object(wpts[pos])
       IN  /\ trace' = Append(trace, [op |-> "get_object", by |-> "load",
                                      pos |-> pos, id |-> wpts[pos],
                                      ok |-> TRUE])
           /\ getObjs' = Append(getObjs, wpt)
           /\ IF ~rev_match(wpt, editable_object)
              THEN IF "revision" \in DOMAIN wpt.properties
                   THEN /\ out' = Append(out, [msg |-> "changed on the server",
                                               pos |-> pos])
                        /\ NextRecord
                        /\ UNCHANGED pending
                   ELSE \* log.debug formats wpt['properties']['revision']
                        /\ Raise("KeyError")
                        /\ UNCHANGED <<out, pos, pending>>
              ELSE IF id_differs(wpt, editable_object)
              THEN /\ out' = Append(out, [msg |-> "id does not match",
                                          pos |-> pos])
                   /\ NextRecord
                   /\ UNCHANGED pending
              ELSE IF invalid_key(editable_object)
              THEN /\ Raise("Invalid key")
                   /\ UNCHANGED <<out, pos, pending>>
              ELSE /\ pending' = merged(wpt, editable_object)
                   /\ pc' = "put"
                   /\ UNCHANGED <<out, pos, err, rc>>
    /\ UNCHANGED <<cmdVars, sessionVars, treeVars>>
    /\ UNCHANGED <<server, wpts, file, snap, putObjs, nEdits, nExt>>

\* self.verbose(x): printed when the command was given --verbose
verbose_print(o, x) ==
    IF verbose THEN Append(o, x) ELSE o

\* LoadPut going on to the next record when the server rejects the object
LoadPut_no_raise ==
    /\ pc = "put"
    /\ putObjs' = Append(putObjs, pending)
    /\ \E ok \in BOOLEAN :
         /\ trace' = Append(trace, [op |-> "put_object", by |-> "load",
                                    pos |-> pos, id |-> pending.id,
                                    ok |-> ok])
         /\ IF ok
            THEN /\ server' = [server EXCEPT ![pending.id] = pending]
                 /\ out' = verbose_print(out, [msg |-> "Updated", pos |-> pos])
                 /\ NextRecord
            ELSE /\ out' = Append(out, [msg |-> "Failed", pos |-> pos])
                 /\ NextRecord
                 /\ UNCHANGED server
    /\ UNCHANGED <<cmdVars, sessionVars, treeVars>>
    /\ UNCHANGED <<wpts, file, snap, pending, getObjs, nEdits, nExt>>

\* client.put_object: the server takes the object, or rejects it
LoadPut ==
    /\ pc = "put"
    /\ putObjs' = Append(putObjs, pending)
    /\ \E ok \in BOOLEAN :
         /\ trace' = Append(trace, [op |-> "put_object", by |-> "load",
                                    pos |-> pos, id |-> pending.id,
                                    ok |-> ok])
         /\ IF ok
            THEN /\ server' = [server EXCEPT ![pending.id] = pending]
                 /\ out' = verbose_print(out, [msg |-> "Updated", pos |-> pos])
                 /\ NextRecord
            ELSE /\ Raise("server rejected changes")
                 /\ UNCHANGED <<server, out, pos>>
    /\ UNCHANGED <<cmdVars, sessionVars, treeVars>>
    /\ UNCHANGED <<wpts, file, snap, pending, getObjs, nEdits, nExt>>

---------------------------------------------------------------------------
(* The edit command on a selection of waypoints *)

\* The selections find_objects can return: sequences of ids, repeats included
Selections ==
    UNION {[1 .. n -> Ids] : n \in 1 .. NumItems}

InitEdit ==
    /\ \E norev \in SUBSET Ids :
         server = [i \in Ids |-> Waypoint(i, i \notin norev)]
    /\ \E s \in Selections : wpts = sorted_by_id(s)
    /\ sel = wpts
    /\ file = NoFile
    /\ snap = NoFile
    /\ pc = "idle"
    /\ pos = 0
    /\ pending = Waypoint(1, TRUE)
    /\ trace = << >>
    /\ getObjs = << >>
    /\ putObjs = << >>
    /\ out = << >>
    /\ err = ""
    /\ rc = 0
    /\ nEdits = 0
    /\ nExt = 0
    /\ mtime = 0
    /\ orig_mtime = 0
    /\ verbose = TRUE
    /\ folders = << >>
    /\ tree = << >>
    /\ todo = << >>
    /\ objs = << >>
    /\ args = NoArgs
    /\ found = NoFound

NextEdit ==
    \/ EditDump
    \/ EditRecord
    \/ EditShape
    \/ ExternalChange
    \/ LoadStart
    \/ LoadFetch
    \/ LoadPut

SpecEdit ==
    InitEdit /\ [][NextEdit]_vars

\* The edit command with and without --verbose
InitReport ==
    /\ \E norev \in SUBSET Ids :
         server = [i \in Ids |-> Waypoint(i, i \notin norev)]
    /\ \E s \in Selections : wpts = sorted_by_id(s)
    /\ sel = wpts
    /\ file = NoFile
    /\ snap = NoFile
    /\ pc = "idle"
    /\ pos = 0
    /\ pending = Waypoint(1, TRUE)
    /\ trace = << >>
    /\ getObjs = << >>
    /\ putObjs = << >>
    /\ out = << >>
    /\ err = ""
    /\ rc = 0
    /\ nEdits = 0
    /\ nExt = 0
    /\ mtime = 0
    /\ orig_mtime = 0
    /\ verbose \in BOOLEAN
    /\ folders = << >>
    /\ tree = << >>
    /\ todo = << >>
    /\ objs = << >>
    /\ args = NoArgs
    /\ found = NoFound

NextReport ==
    \/ EditDump
    \/ EditRecord
    \/ ExternalChange
    \/ LoadStart
    \/ LoadFetch
    \/ LoadPut

SpecReport ==
    InitReport /\ [][NextReport]_vars

\* The edit command on a file whose records were edited, given --verbose
SpecApply ==
    InitEdit /\ [][NextReport]_vars

---------------------------------------------------------------------------
(* Two runs of the edit command on the same selection: the dump, then the
   apply, each sorting what find_objects gives it *)

\* The orders the same objects can be found in
Reorderings(s) ==
    {t \in [1 .. Len(s) -> Ids] :
        \A j \in Ids : Cardinality({k \in DOMAIN t : t[k] = j})
                       = Cardinality({k \in DOMAIN s : s[k] = j})}

\* Waypoint.edit from find_objects to the sort: the working set of this run
EditSelect ==
    /\ pc = "select"
    /\ wpts' = sorted_by_id(sel)
    /\ pc' = "idle"
    /\ UNCHANGED <<cmdVars, treeVars, mtime, orig_mtime, sel, verbose>>
    /\ UNCHANGED <<server, file, snap, pos, pending, trace, getObjs, putObjs,
                   out, err, rc, nEdits, nExt>>

\* The dump ran; the command is run again with --file and the server lists
\* the same objects in some order
Relist ==
    /\ pc = "idle"
    /\ snap # NoFile
    /\ \E t \in Reorderings(sel) : sel' = t
    /\ pc' = "select"
    /\ UNCHANGED <<cmdVars, treeVars, mtime, orig_mtime, verbose>>
    /\ UNCHANGED <<server, wpts, file, snap, pos, pending, trace, getObjs,
                   putObjs, out, err, rc, nEdits, nExt>>

InitSort ==
    /\ \E norev \in SUBSET Ids :
         server = [i \in Ids |-> Waypoint(i, i \notin norev)]
    /\ sel \in Selections
    /\ wpts = << >>
    /\ file = NoFile
    /\ snap = NoFile
    /\ pc = "select"
    /\ pos = 0
    /\ pending = Waypoint(1, TRUE)
    /\ trace = << >>
    /\ getObjs = << >>
    /\ putObjs = << >>
    /\ out = << >>
    /\ err = ""
    /\ rc = 0
    /\ nEdits = 0
    /\ nExt = 0
    /\ mtime = 0
    /\ orig_mtime = 0
    /\ verbose = TRUE
    /\ folders = << >>
    /\ tree = << >>
    /\ todo = << >>
    /\ objs = << >>
    /\ args = NoArgs
    /\ found = NoFound

NextSort ==
    \/ EditSelect
    \/ EditDump
    \/ Relist
    \/ LoadStart
    \/ LoadFetch
    \/ LoadPut

SpecSort ==
    InitSort /\ [][NextSort]_vars

---------------------------------------------------------------------------
(* The move command on a listing of objects *)

InitMove ==
    /\ objs \in Listings
    /\ args = NoArgs
    /\ found = NoFound
    /\ server = [i \in Ids |-> Waypoint(i, TRUE)]
    /\ wpts = << >>
    /\ sel = << >>
    /\ file = NoFile
    /\ snap = NoFile
    /\ pc = "idle"
    /\ pos = 0
    /\ pending = Waypoint(1, TRUE)
    /\ trace = << >>
    /\ getObjs = << >>
    /\ putObjs = << >>
    /\ out = << >>
    /\ err = ""
    /\ rc = 0
    /\ nEdits = 0
    /\ nExt = 0
    /\ mtime = 0
    /\ orig_mtime = 0
    /\ verbose = TRUE
    /\ folders = << >>
    /\ tree = << >>
    /\ todo = << >>

NextMove ==
    Move

SpecMove ==
    InitMove /\ [][NextMove]_vars

---------------------------------------------------------------------------
(* Waypoint.edit with --interactive: dump, editor, modification time check *)

NoChangesMade ==
    "No changes made; not updating"

\* The check taken as never equal: the apply always runs
mtime_unchanged_never(orig, new) ==
    FALSE

\* orig_mtime == new_mtime
mtime_unchanged(orig, new) ==
    orig = new

\* _dump_for_edit writes the file, and edit records its modification time
InteractiveDump ==
    /\ pc = "interactive"
    /\ file' = ListFile(dump_for_edit(wpts))
    /\ snap' = file'
    /\ trace' = trace \o [i \in 1 .. Len(wpts) |->
                            [op |-> "get_object", by |-> "dump", pos |-> i,
                             id |-> wpts[i], ok |-> TRUE]]
    /\ mtime' = mtime + 1
    /\ orig_mtime' = mtime'
    /\ pc' = "editor"
    /\ UNCHANGED <<cmdVars, treeVars, sel, verbose>>
    /\ UNCHANGED <<server, wpts, pos, pending, getObjs, putObjs, out, err,
                   rc, nEdits, nExt>>

\* The editor writes the file with a change: the file system stamps it with
\* a later time, or with the same time when the write falls within the
\* resolution of its clock
EditorSave ==
    /\ pc = "editor"
    /\ file.kind = "list"
    /\ nEdits + nExt < MaxEnv
    /\ \/ \E i \in 1 .. Len(file.recs) :
            \E recs \in EditedRecords(file.recs, i) :
               /\ recs # file.recs
               /\ file' = ListFile(recs)
       \/ file' = NotAList
    /\ \E t \in {mtime, mtime + 1} : mtime' = t
    /\ nEdits' = nEdits + 1
    /\ UNCHANGED <<cmdVars, treeVars, sel, orig_mtime, verbose>>
    /\ UNCHANGED <<server, wpts, snap, pc, pos, pending, trace, getObjs,
                   putObjs, out, err, rc, nExt>>

\* The editor writes the file as it is
EditorTouch ==
    /\ pc = "editor"
    /\ nEdits + nExt < MaxEnv
    /\ mtime' = mtime + 1
    /\ nEdits' = nEdits + 1
    /\ UNCHANGED <<cmdVars, treeVars, sel, orig_mtime, verbose>>
    /\ UNCHANGED <<server, wpts, file, snap, pc, pos, pending, trace,
                   getObjs, putObjs, out, err, rc, nExt>>

\* subprocess.call returns
EditorExit ==
    /\ pc = "editor"
    /\ pc' = "check"
    /\ UNCHANGED <<cmdVars, sessionVars, treeVars>>
    /\ UNCHANGED <<server, wpts, file, snap, pos, pending, trace, getObjs,
                   putObjs, out, err, rc, nEdits, nExt>>

\* new_mtime = os.path.getmtime(temp_fn): equal, edit prints and returns 0;
\* else it goes on to _load_for_edit
MtimeCheck ==
    /\ pc = "check"
    /\ IF mtime_unchanged(orig_mtime, mtime)
       THEN /\ out' = Append(out, [msg |-> NoChangesMade, pos |-> 0])
            /\ pc' = "done"
            /\ rc' = 0
       ELSE /\ pc' = "idle"
            /\ UNCHANGED <<out, rc>>
    /\ UNCHANGED <<cmdVars, sessionVars, treeVars>>
    /\ UNCHANGED <<server, wpts, file, snap, pos, pending, trace, getObjs,
                   putObjs, err, nEdits, nExt>>

InitInteractive ==
    /\ \E norev \in SUBSET Ids :
         server = [i \in Ids |-> Waypoint(i, i \notin norev)]
    /\ \E s \in Selections : wpts = sorted_by_id(s)
    /\ sel = wpts
    /\ file = NoFile
    /\ snap = NoFile
    /\ pc = "interactive"
    /\ pos = 0
    /\ pending = Waypoint(1, TRUE)
    /\ trace = << >>
    /\ getObjs = << >>
    /\ putObjs = << >>
    /\ out = << >>
    /\ err = ""
    /\ rc = 0
    /\ nEdits = 0
    /\ nExt = 0
    /\ mtime = 0
    /\ orig_mtime = 0
    /\ verbose = TRUE
    /\ folders = << >>
    /\ tree = << >>
    /\ todo = << >>
    /\ objs = << >>
    /\ args = NoArgs
    /\ found = NoFound

NextInteractive ==
    \/ InteractiveDump
    \/ EditorSave
    \/ EditorTouch
    \/ EditorExit
    \/ MtimeCheck
    \/ LoadStart
    \/ LoadFetch
    \/ LoadPut

SpecInteractive ==
    InitInteractive /\ [][NextInteractive]_vars

---------------------------------------------------------------------------
(* util.make_tree and util.resolve_tree, as the tree command calls them *)

\* A folder as client.list_objects('folder') gives it. parent: 0 stands for
\* None.
ListedFolder(i, p) ==
    [id |-> i, title |-> i, parent |-> p]

\* A folder whose dict has no parent key
ListedFolderNoParent(i) ==
    [id |-> i, title |-> i]

\* The folder lists of n folders, ids 1 .. n: each folder with no parent key,
\* a null parent, a listed folder (itself included) as parent, or a parent
\* that is not in the list
FolderLists(n) ==
    {fs \in [1 .. n -> {ListedFolderNoParent(i) : i \in 1 .. n}
                       \cup {ListedFolder(i, p) : i \in 1 .. n,
                                                  p \in 0 .. (n + 1)}] :
        \A i \in 1 .. n : fs[i].id = i}

\* The full folder client.get_object('folder', id_=i) returns: no parent, no
\* title and no subfolders key
FolderObject(i) ==
    [id |-> i,
     properties |-> [name |-> i, waypoints |-> << >>, tracks |-> << >>]]

\* root = {'properties': {'name': '/', 'waypoints': {}, 'tracks': {}}}
RootNode ==
    [properties |-> [name |-> "/", waypoints |-> << >>, tracks |-> << >>]]

\* folder.get('subfolders', {}): the nodes the map refers to
subfolders_of(node) ==
    IF "subfolders" \in DOMAIN node THEN node.subfolders ELSE << >>

\* Every folder put under the root
parent_node_root(folder) ==
    0

\* The node make_tree looks up for a folder: the root (node 0) when
\* folder.get('parent') is falsy
parent_node(folder) ==
    IF "parent" \in DOMAIN folder /\ folder.parent # 0
    THEN folder.parent
    ELSE 0

RECURSIVE link_folders(_, _, _)
\* The loop of make_tree from folder k of the list on; heap maps every node
\* to its dict. folders_by_id[folder['parent']] raises KeyError.
link_folders(heap, fs, k) ==
    IF k > Len(fs) THEN [exc |-> "", heap |-> heap]
    ELSE LET folder == fs[k]
             parent == parent_node(folder)
         IN  IF parent \notin DOMAIN heap
             THEN [exc |-> "KeyError", heap |-> heap]
             ELSE link_folders(
                    [heap EXCEPT ![parent] =
                        DictSet(heap[parent], "subfolders",
                                Append(subfolders_of(heap[parent]),
                                       folder.id))],
                    fs, k + 1)

make_tree(fs) ==
    link_folders([node \in 0 .. Len(fs) |->
                     IF node = 0 THEN RootNode ELSE fs[node]], fs, 1)

\* resolve_tree putting the fetched folder in place of the node
resolved_fetched_only(folder, updated) ==
    updated

\* folder.clear(); folder.update(updated); folder['subfolders'] = subf
resolved(folder, updated) ==
    DictSet(updated, "subfolders", subfolders_of(folder))

\* resolve_tree not descending into the subfolders
calls_after_none(folder, rest) ==
    rest

\* The calls of resolve_tree still to come once a node is resolved: those
\* on its subfolders, in the order of the map, then the ones that were
\* pending
calls_after(folder, rest) ==
    subfolders_of(folder) \o rest

\* Tree.default up to the call of resolve_tree on the root
MakeTree ==
    /\ pc = "idle"
    /\ LET r == make_tree(folders)
       IN  IF r.exc # ""
           THEN /\ pc' = "done"
                /\ err' = r.exc
                /\ rc' = 1
                /\ UNCHANGED <<tree, todo>>
           ELSE /\ tree' = r.heap
                /\ todo' = <<0>>
                /\ pc' = "resolve"
                /\ UNCHANGED <<err, rc>>
    /\ UNCHANGED <<cmdVars, sessionVars, editVars, folders, trace, out>>

\* One call of resolve_tree, up to its loop over the subfolders
ResolveNode ==
    /\ pc = "resolve"
    /\ todo # << >>
    /\ LET n == Head(todo)
           folder == tree[n]
       IN  /\ IF "id" \in DOMAIN folder
              THEN /\ trace' = Append(trace,
                                 [op |-> "get_object", by |-> "resolve_tree",
                                  pos |-> 0, id |-> folder.id, ok |-> TRUE])
                   /\ tree' = [tree EXCEPT
                                 ![n] = resolved(folder, FolderObject(folder.id))]
              ELSE /\ trace' = trace \o
                                 <<[op |-> "list_objects", by |-> "resolve_tree",
                                    pos |-> 0, id |-> 0, ok |-> TRUE],
                                   [op |-> "list_objects", by |-> "resolve_tree",
                                    pos |-> 0, id |-> 0, ok |-> TRUE]>>
                   /\ tree' = tree
           /\ todo' = calls_after(tree'[n], Tail(todo))
    /\ UNCHANGED <<cmdVars, sessionVars, editVars, folders, pc, out, err, rc>>

\* resolve_tree returned: pprint_folder, and the command ends
TreePrint ==
    /\ pc = "resolve"
    /\ todo = << >>
    /\ pc' = "done"
    /\ rc' = 0
    /\ out' = Append(out, [msg |-> "/", pos |-> 0])
    /\ UNCHANGED <<cmdVars, sessionVars, editVars, treeVars, trace, err>>

InitTree ==
    /\ \E n \in 0 .. MaxFolders : folders \in FolderLists(n)
    /\ tree = << >>
    /\ todo = << >>
    /\ objs = << >>
    /\ args = NoArgs
    /\ found = NoFound
    /\ server = [i \in Ids |-> Waypoint(i, TRUE)]
    /\ wpts = << >>
    /\ sel = << >>
    /\ file = NoFile
    /\ snap = NoFile
    /\ pc = "idle"
    /\ pos = 0
    /\ pending = Waypoint(1, TRUE)
    /\ trace = << >>
    /\ getObjs = << >>
    /\ putObjs = << >>
    /\ out = << >>
    /\ err = ""
    /\ rc = 0
    /\ nEdits = 0
    /\ nExt = 0
    /\ mtime = 0
    /\ orig_mtime = 0
    /\ verbose = TRUE

NextTree ==
    \/ MakeTree
    \/ ResolveNode
    \/ TreePrint

SpecTree ==
    InitTree /\ [][NextTree]_vars

\* The command runs on: nothing but the program takes its steps
SpecTreeFair ==
    SpecTree /\ WF_vars(NextTree)

---------------------------------------------------------------------------
(* The date filter of list --match-date on one listed object *)

\* The days a datestamp or a date of --match-date can name
StampDays ==
    {0, 1, 2}

\* The local times a datestamp can tell: every tick of every day, the ticks
\* between two seconds (datestamps may hold fractions of a second) included
Stamps ==
    {d * Day + k : d \in StampDays, k \in 0 .. (Day - 1)}

\* One listed object: its datestamp on the object, in its properties, or
\* nowhere
StampedObjects ==
    {[id |-> 1, title |-> "a", folder |-> "", properties |-> << >>]}
    \cup {[id |-> 1, title |-> "a", folder |-> "",
           properties |-> [time_created |-> t]] : t \in Stamps}
    \cup {[id |-> 1, title |-> "a", folder |-> "", properties |-> << >>,
           time_created |-> t] : t \in Stamps}

\* values.split(':', 1): 'D1' or 'D1:D2'
DateArgs ==
    {<<d>> : d \in StampDays} \cup (StampDays \X StampDays)

\* DateRange.__call__ on the dates of the argument: the end is the second
\* date when there is one, the first otherwise
parse_dates(dates) ==
    DateRange(dates[1], dates[Len(dates)])

\* The loop of Command.list with --match-date alone: the objects it keeps
MatchDate ==
    /\ pc = "idle"
    /\ \E dates \in DateArgs :
         LET date_range == parse_dates(dates)
             keep(x) == _match_date(x, date_range)
         IN  /\ args' = [cmd |-> "list", name |-> << >>, match |-> FALSE,
                         match_date |-> date_range, destination |-> "",
                         dry_run |-> FALSE, dates |-> dates]
             /\ found' = Found(SelectSeq(objs, keep))
    /\ pc' = "done"
    /\ UNCHANGED <<objs, editVars, sessionVars, treeVars>>
    /\ UNCHANGED <<trace, out, err, rc>>

InitDate ==
    /\ \E o \in StampedObjects : objs = <<o>>
    /\ args = NoArgs
    /\ found = NoFound
    /\ server = [i \in Ids |-> Waypoint(i, TRUE)]
    /\ wpts = << >>
    /\ sel = << >>
    /\ file = NoFile
    /\ snap = NoFile
    /\ pc = "idle"
    /\ pos = 0
    /\ pending = Waypoint(1, TRUE)
    /\ trace = << >>
    /\ getObjs = << >>
    /\ putObjs = << >>
    /\ out = << >>
    /\ err = ""
    /\ rc = 0
    /\ nEdits = 0
    /\ nExt = 0
    /\ mtime = 0
    /\ orig_mtime = 0
    /\ verbose = TRUE
    /\ folders = << >>
    /\ tree = << >>
    /\ todo = << >>

NextDate ==
    MatchDate

SpecDate ==
    InitDate /\ [][NextDate]_vars

---------------------------------------------------------------------------
(* The commands that select objects: remove, archive, unarchive and move *)

NextSelect ==
    \/ Remove
    \/ Archive
    \/ Move
    \/ Rename
    \/ WaypointAdd
    \/ FolderAdd

SpecSelect ==
    InitMove /\ [][NextSelect]_vars

\* The folder remove command
InitFolderRemove ==
    /\ objs \in FolderListings
    /\ args = NoArgs
    /\ found = NoFound
    /\ server = [i \in Ids |-> Waypoint(i, TRUE)]
    /\ wpts = << >>
    /\ sel = << >>
    /\ file = NoFile
    /\ snap = NoFile
    /\ pc = "idle"
    /\ pos = 0
    /\ pending = Waypoint(1, TRUE)
    /\ trace = << >>
    /\ getObjs = << >>
    /\ putObjs = << >>
    /\ out = << >>
    /\ err = ""
    /\ rc = 0
    /\ nEdits = 0
    /\ nExt = 0
    /\ mtime = 0
    /\ orig_mtime = 0
    /\ verbose = TRUE
    /\ folders = << >>
    /\ tree = << >>
    /\ todo = << >>

NextFolderRemove ==
    FolderRemove

SpecFolderRemove ==
    InitFolderRemove /\ [][NextFolderRemove]_vars

\* The upload command
InitUpload ==
    /\ objs \in UploadListings
    /\ args = NoArgs
    /\ found = NoFound
    /\ server = [i \in Ids |-> Waypoint(i, TRUE)]
    /\ wpts = << >>
    /\ sel = << >>
    /\ file = NoFile
    /\ snap = NoFile
    /\ pc = "idle"
    /\ pos = 0
    /\ pending = Waypoint(1, TRUE)
    /\ trace = << >>
    /\ getObjs = << >>
    /\ putObjs = << >>
    /\ out = << >>
    /\ err = ""
    /\ rc = 0
    /\ nEdits = 0
    /\ nExt = 0
    /\ mtime = 0
    /\ orig_mtime = 0
    /\ verbose = TRUE
    /\ folders = << >>
    /\ tree = << >>
    /\ todo = << >>

NextUpload ==
    Upload

SpecUpload ==
    InitUpload /\ [][NextUpload]_vars

\* The waypoint add command alone
NextAdd ==
    WaypointAdd

SpecAdd ==
    InitMove /\ [][NextAdd]_vars

---------------------------------------------------------------------------
(* Properties of find_objects and of the move command (SpecMove) *)

\* The objects of the listing that lie in the date range of the command
InRange ==
    {i \in 1 .. Len(objs) :
        LET o == objs[i]
        IN  /\ "time_created" \in DOMAIN o.properties
            /\ o.properties.time_created >= args.match_date.start
            /\ o.properties.time_created <= args.match_date.end}

\* The date filter removed at least one object of the listing
Narrowed ==
    args.match_date.given /\ Cardinality(InRange) < Len(objs)

MoveRan ==
    pc = "done" /\ args.cmd = "move"

\* C1: find_objects with an empty selector list raises the safety abort
\* whenever the candidate set was not narrowed (no date filter, or a date
\* filter that removes no object); it returns a list, the objects left by
\* the filter, only when the date filter removed at least one object.
C1_EmptySelectorSafety ==
    (MoveRan /\ args.name = << >>) =>
        /\ ~Narrowed => found = Safety
        /\ Narrowed =>
              /\ found.exc = ""
              /\ Len(found.objs) = Cardinality(InRange)
              /\ \A i \in 1 .. Len(found.objs) :
                    found.objs[i].id \in InRange

\* A date filter was given, removed nothing, and the command was refused
C1_Witness ==
    /\ MoveRan
    /\ args.name = << >>
    /\ args.match_date.given
    /\ Len(objs) = NumItems
    /\ Cardinality(InRange) = Len(objs)
    /\ found = Safety
    /\ rc = 1

DestinationMissing ==
    args.destination # "/" /\ ~folder_found(args.destination)

NoFolderCalls ==
    \A k \in 1 .. Len(trace) :
        trace[k].op \notin {"add_object_to_folder",
                            "remove_object_from_folder"}

\* C10 as stated: when the selection raises the safety abort or the
\* destination folder does not exist, move issues no add_object_to_folder and
\* no remove_object_from_folder call and exits non-zero.
C10_AsStated ==
    (MoveRan /\ (found.exc = "_Safety" \/ DestinationMissing)) =>
        (NoFolderCalls /\ rc # 0)

\* C10 amended: move issues folder calls only when the selection resolved to
\* at least one object and the destination is "/" or an existing folder; a
\* safety abort, or a missing destination with a non-empty selection, gives a
\* non-zero exit; with an empty selection the destination is never looked
\* up and the exit status is zero.
C10_MoveNeedsSelectionAndDestination ==
    MoveRan =>
        /\ ~NoFolderCalls =>
              /\ found.exc = ""
              /\ found.objs # << >>
              /\ ~DestinationMissing
        /\ found.exc # "" => rc # 0
        /\ (found.exc = "" /\ found.objs # << >> /\ DestinationMissing)
              => rc # 0
        /\ (found.exc = "" /\ found.objs = << >>) => rc = 0

\* Objects were selected, the destination does not exist, nothing was moved
C10_Witness ==
    /\ MoveRan
    /\ found.exc = ""
    /\ Len(found.objs) = NumItems
    /\ DestinationMissing
    /\ ~args.dry_run
    /\ NoFolderCalls
    /\ rc = 1

---------------------------------------------------------------------------
(* Properties of the selection of objects by remove, archive and move
   (SpecSelect) *)

CmdRan ==
    pc = "done" /\ args.cmd \in {"remove", "archive", "unarchive", "move"}

\* The positions of the listing whose object the selector x names exactly
ExactHits(x) ==
    {i \in DOMAIN objs :
        IF x.kind = "id" THEN objs[i].id = x.id ELSE objs[i].title = x.name}

\* The selector x is taken as an exact id or title
Exact(x) ==
    x.kind = "id" \/ ~args.match

\* C11: with --match off, names that each are the title of exactly one object
\* resolve to those objects, one per name; a name that is the title of no
\* object makes the selection fail with NotFound, and the command issues no
\* call that changes the server and exits non-zero.
C11_ExactTitleResolution ==
    (CmdRan /\ ~args.match) =>
        /\ (/\ ~args.match_date.given
            /\ args.name # << >>
            /\ \A k \in DOMAIN args.name :
                  /\ args.name[k].kind = "name"
                  /\ Cardinality(ExactHits(args.name[k])) = 1)
           => /\ found.exc = ""
              /\ Len(found.objs) = Len(args.name)
              /\ \A k \in DOMAIN args.name :
                    \E i \in ExactHits(args.name[k]) : found.objs[k] = objs[i]
        /\ (\E k \in DOMAIN args.name :
               args.name[k].kind = "name" /\ ExactHits(args.name[k]) = {})
           => /\ found.exc = "NotFound"
              /\ trace = << >>
              /\ rc # 0

C11_Witness ==
    /\ CmdRan
    /\ args.cmd = "remove"
    /\ ~args.match
    /\ ~args.dry_run
    /\ args.name = <<NameSelector("a")>>
    /\ Len(objs) = NumItems
    /\ ExactHits(NameSelector("a")) = {}
    /\ found.exc = "NotFound"
    /\ trace = << >>
    /\ rc = 1

\* C12 as stated: when one of several exact selectors matches nothing, the
\* other selectors are still tried and the objects they name are resolved.
C12_AsStated ==
    (CmdRan /\ Len(args.name) > 1) =>
        \A k, j \in DOMAIN args.name :
            (/\ Exact(args.name[k])
             /\ ExactHits(args.name[k]) = {}
             /\ Exact(args.name[j])
             /\ ExactHits(args.name[j]) # {}
             /\ ~args.match_date.given)
            => \E m \in DOMAIN found.objs, i \in ExactHits(args.name[j]) :
                  found.objs[m] = objs[i]

\* C12: an exact selector that matches nothing fails the whole selection with
\* NotFound: no object named by another selector is resolved, the command
\* issues no call and exits non-zero; the safety abort blocks the operation
\* in the same way.
C12_SelectionErrorsAbort ==
    CmdRan =>
        /\ (\E k \in DOMAIN args.name :
               Exact(args.name[k]) /\ ExactHits(args.name[k]) = {})
           => /\ found.exc = "NotFound"
              /\ found.objs = << >>
              /\ trace = << >>
              /\ rc # 0
        /\ found.exc = "_Safety"
           => /\ args.name = << >>
              /\ trace = << >>
              /\ rc # 0

C12_Witness ==
    /\ CmdRan
    /\ args.cmd = "remove"
    /\ ~args.dry_run
    /\ ~args.match
    /\ args.name = <<NameSelector("a"), NameSelector("b")>>
    /\ ExactHits(NameSelector("a")) # {}
    /\ ExactHits(NameSelector("b")) = {}
    /\ found.exc = "NotFound"
    /\ trace = << >>
    /\ rc = 1

\* The object at position i of the listing passes the date filter of the
\* command
PassesDate(i) ==
    ~args.match_date.given \/ i \in InRange

\* C13: with --match on, names contribute every object whose title the name
\* matches as a pattern, once per name that matches it, and no other object;
\* a pattern that matches nothing is no error: move, archive and unarchive
\* then issue no call and exit zero.
C13_PatternSelection ==
    (/\ CmdRan
     /\ args.match
     /\ args.name # << >>
     /\ \A k \in DOMAIN args.name : args.name[k].kind = "name")
    => /\ found.exc = ""
       /\ \A m \in DOMAIN found.objs :
             \E i \in DOMAIN objs : found.objs[m] = objs[i]
       /\ \A i \in DOMAIN objs :
             Cardinality({m \in DOMAIN found.objs : found.objs[m] = objs[i]})
             = IF PassesDate(i)
               THEN Cardinality({k \in DOMAIN args.name :
                                    re_search(args.name[k].name, objs[i].title)})
               ELSE 0
       /\ (found.objs = << >> /\ args.cmd # "remove")
          => (trace = << >> /\ rc = 0)

C13_Witness ==
    /\ CmdRan
    /\ args.cmd = "archive"
    /\ args.match
    /\ ~args.dry_run
    /\ ~args.match_date.given
    /\ args.name = <<NameSelector("a")>>
    /\ Len(objs) = NumItems
    /\ \A i \in DOMAIN objs : objs[i].title = "b"
    /\ found = Found(<< >>)
    /\ trace = << >>
    /\ rc = 0

---------------------------------------------------------------------------
(* Properties of the date filter (SpecDate) *)

DateRan ==
    pc = "done" /\ args.cmd = "list"

\* The local time of the datestamp of the object listed: on the object or in
\* its properties
HasStamp ==
    "time_created" \in DOMAIN objs[1] \/ "time_created" \in DOMAIN objs[1].properties

StampOf ==
    IF "time_created" \in DOMAIN objs[1] THEN objs[1].time_created
    ELSE objs[1].properties.time_created

\* The first and the last day of the argument
FirstDay ==
    args.dates[1]

LastDay ==
    args.dates[Len(args.dates)]

---------------------------------------------------------------------------
(* Properties of the apply of a snapshot by edit --file (SpecEdit) *)

\* The writes issued at position i of the batch
PutsAt(i) ==
    {k \in DOMAIN trace : trace[k].op = "put_object" /\ trace[k].pos = i}

\* The fetches apply issued at position i of the batch
LoadGetsAt(i) ==
    {k \in DOMAIN trace :
        trace[k].op = "get_object" /\ trace[k].by = "load" /\ trace[k].pos = i}

NoPuts ==
    \A k \in DOMAIN trace : trace[k].op # "put_object"

NoLoadCalls ==
    \A k \in DOMAIN trace : trace[k].by # "load"

AllAccepted ==
    \A k \in DOMAIN trace : trace[k].ok

\* The command printed message m about position i
Said(m, i) ==
    \E k \in DOMAIN out : out[k] = [msg |-> m, pos |-> i]

\* Position i was passed over with diagnostic m: nothing written for it and
\* the loop went on (an abort at i leaves pos at i)
SkippedAt(i, m) ==
    /\ PutsAt(i) = {}
    /\ Said(m, i)
    /\ pos > i

\* The apply went through the shape checks and ended
ApplyRan ==
    /\ pc = "done"
    /\ file.kind = "list"
    /\ Len(file.recs) = Len(wpts)

DeclaredProps ==
    {"icon", "notes", "public", "title", "revision"}

\* Record i of the file is valid but for the value of its revision
RecordValid(i) ==
    LET r == file.recs[i]
    IN  /\ DOMAIN r = {"id", "properties"}
        /\ r.id = wpts[i]
        /\ DOMAIN r.properties \subseteq DeclaredProps
        /\ "revision" \in DOMAIN r.properties

ServerHasRevisions ==
    \A i \in DOMAIN wpts : "revision" \in DOMAIN server[wpts[i]].properties

\* The positions whose record carries another revision than the server's
\* at the time apply fetched the item
Stale ==
    {i \in DOMAIN getObjs :
        getObjs[i].properties.revision # file.recs[i].properties.revision}

C2_Premise ==
    /\ ApplyRan
    /\ \A i \in DOMAIN file.recs : RecordValid(i)
    /\ ServerHasRevisions
    /\ AllAccepted

\* The positions outside Stale are written once each, those in Stale never
WrittenOutsideStale ==
    /\ Len(getObjs) = Len(wpts)
    /\ \A i \in DOMAIN wpts :
         Cardinality(PutsAt(i)) = IF i \in Stale THEN 0 ELSE 1
    /\ \A k \in DOMAIN trace :
         trace[k].op = "put_object" => trace[k].id = wpts[trace[k].pos]

\* C2 as stated: the positions outside the stale set S are written once each
\* and no write is issued for any item that stands at a position in S.
C2_AsStated ==
    C2_Premise =>
        /\ WrittenOutsideStale
        /\ \A i \in Stale : \A k \in DOMAIN trace :
              trace[k].op = "put_object" => trace[k].id # wpts[i]

\* C2: apply writes exactly the positions outside the stale set S, once each,
\* and issues no write at a position in S; an item that stands only at
\* positions in S is not written at all, and the command succeeds.
C2_StalePositionsSkipped ==
    C2_Premise =>
        /\ WrittenOutsideStale
        /\ \A i \in Stale : SkippedAt(i, "changed on the server")
        /\ \A j \in Ids :
              (\A i \in DOMAIN wpts : wpts[i] = j => i \in Stale)
              => \A k \in DOMAIN trace :
                    trace[k].op = "put_object" => trace[k].id # j
        /\ rc = 0

C2_Witness ==
    /\ C2_Premise
    /\ Len(wpts) = NumItems
    /\ 1 \in Stale
    /\ NumItems \notin Stale
    /\ Cardinality(PutsAt(NumItems)) = 1
    /\ server[wpts[1]] = Waypoint(wpts[1], TRUE)

\* Record r holds a key the schema does not declare
Undeclared(r) ==
    \/ \E top_key \in DOMAIN r : top_key \notin {"id", "properties"}
    \/ /\ "properties" \in DOMAIN r
       /\ \E key \in DOMAIN r.properties : key \notin DeclaredProps

\* C3 as stated: an undeclared field in any record of the snapshot aborts the
\* apply before any item is written: no put_object call for any position, no
\* item reported as updated, and a non-zero status.
C3_AsStated ==
    (/\ pc # "idle"
     /\ file.kind = "list"
     /\ \E i \in DOMAIN file.recs : Undeclared(file.recs[i]))
    => /\ NoPuts
       /\ \A k \in DOMAIN out : out[k].msg # "Updated"
       /\ pc = "done" => rc # 0

\* C4: a snapshot that is not a sequence, or whose length differs from the
\* number of selected items, ends the command at once with an error and a
\* non-zero status, with no fetch and no write issued by apply.
C4_ShapeChecksAbort ==
    (/\ pc # "idle"
     /\ file.kind # "list" \/ Len(file.recs) # Len(wpts))
    => /\ pc = "done"
       /\ rc # 0
       /\ err # ""
       /\ NoLoadCalls
       /\ out = << >>

C4_Witness ==
    /\ pc = "done"
    /\ file.kind = "list"
    /\ Len(file.recs) = Len(wpts) + 1
    /\ err = "item count"
    /\ rc = 1
    /\ NoLoadCalls

\* The snapshot was taken and record i of the file still carries the revision
\* the snapshot gave it
CarriesSnapshotRevision(i) ==
    /\ snap.kind = "list"
    /\ i \in DOMAIN snap.recs
    /\ i \in DOMAIN file.recs
    /\ "revision" \in DOMAIN snap.recs[i].properties
    /\ "properties" \in DOMAIN file.recs[i]
    /\ "revision" \in DOMAIN file.recs[i].properties
    /\ file.recs[i].properties.revision = snap.recs[i].properties.revision

\* Another actor changed the item of position i after the snapshot was taken
\* and before apply fetched that item, and apply has fetched position i
ChangedBeforeFetch(i) ==
    /\ LoadGetsAt(i) # {}
    /\ \E e \in DOMAIN trace :
          /\ trace[e].op = "external_change"
          /\ trace[e].id = wpts[i]
          /\ \E d \in 1 .. (e - 1) : trace[d].by = "dump"
          /\ \A g \in 1 .. (e - 1) :
                ~(trace[g].by = "load" /\ trace[g].id = wpts[i])

RoundTrip ==
    /\ ApplyRan
    /\ snap.kind = "list"
    /\ file = snap
    /\ \A d, e \in DOMAIN trace :
          (trace[d].by = "dump" /\ trace[e].op = "external_change") => e < d
    /\ ServerHasRevisions
    /\ AllAccepted

PutIndex(k) ==
    Cardinality({m \in 1 .. k : trace[m].op = "put_object"})

\* No call after call k changed item j on the server
Untouched(j, k) ==
    \A m \in DOMAIN trace :
        (m > k /\ trace[m].id = j /\ trace[m].ok)
        => trace[m].op = "get_object"

\* C7: when the server rejects a write, that write is the last call of the
\* command, the command ends with an error and a non-zero status, and the
\* items written before keep the values written.
C7_RejectionStops ==
    \A k \in DOMAIN trace :
        (trace[k].op = "put_object" /\ ~trace[k].ok)
        => /\ k = Len(trace)
           /\ pc = "done"
           /\ rc # 0
           /\ err = "server rejected changes"
           /\ pos = trace[k].pos
           /\ \A m \in 1 .. (k - 1) :
                 (/\ trace[m].op = "put_object"
                  /\ trace[m].ok
                  /\ Untouched(trace[m].id, m))
                 => server[trace[m].id] = putObjs[PutIndex(m)]

C7_Witness ==
    /\ pc = "done"
    /\ rc = 1
    /\ Len(trace) > 0
    /\ trace[Len(trace)].op = "put_object"
    /\ ~trace[Len(trace)].ok
    /\ trace[Len(trace)].pos = 2
    /\ wpts[1] # wpts[2]
    /\ Cardinality(PutsAt(1)) = 1
    /\ server[wpts[1]].properties.title = 1

\* Position i was fetched and the item or the record has no revision
RevisionMissing(i) ==
    /\ i \in DOMAIN getObjs
    /\ \/ "revision" \notin DOMAIN getObjs[i].properties
       \/ "properties" \notin DOMAIN file.recs[i]
       \/ "revision" \notin DOMAIN file.recs[i].properties

\* C8 as stated: when the fetched item or the record at position i has no
\* revision, position i is skipped with a diagnostic, nothing is written for
\* it, and apply goes on with position i + 1.
C8_AsStated ==
    \A i \in DOMAIN wpts :
        RevisionMissing(i) => SkippedAt(i, "changed on the server")

\* Position i was fetched and its record passed the revision check
RevisionPassed(i) ==
    /\ i \in DOMAIN getObjs
    /\ "revision" \in DOMAIN getObjs[i].properties
    /\ "properties" \in DOMAIN file.recs[i]
    /\ "revision" \in DOMAIN file.recs[i].properties
    /\ getObjs[i].properties.revision = file.recs[i].properties.revision

\* C9: a record that passes the revision check but whose id is absent or is
\* not the id of the fetched item is skipped with a diagnostic, nothing is
\* written at its position, and apply goes on with the next position.
C9_IdMismatchSkipped ==
    \A i \in DOMAIN wpts :
        (/\ RevisionPassed(i)
         /\ \/ "id" \notin DOMAIN file.recs[i]
            \/ file.recs[i].id # getObjs[i].id)
        => SkippedAt(i, "id does not match")

C9_Witness ==
    /\ pc = "done"
    /\ rc = 0
    /\ Len(wpts) = NumItems
    /\ RevisionPassed(1)
    /\ "id" \in DOMAIN file.recs[1]
    /\ file.recs[1].id # getObjs[1].id
    /\ Said("id does not match", 1)
    /\ PutsAt(1) = {}
    /\ Cardinality(PutsAt(NumItems)) = 1

---------------------------------------------------------------------------
(* Further properties of the apply (SpecApply) *)

\* Position i was fetched and its record passed the revision and id checks
ChecksPassed(i) ==
    /\ RevisionPassed(i)
    /\ "id" \in DOMAIN file.recs[i]
    /\ file.recs[i].id = getObjs[i].id

\* C27: when the record at position i has passed the revision and identity
\* checks and holds an undeclared key, at top level or inside properties,
\* apply stops there with an error: nothing is written at position i or at a
\* later position, no call follows the fetch of position i, and the command
\* returns non-zero.
C27_InvalidKeyStops ==
    \A i \in DOMAIN wpts :
        (ChecksPassed(i) /\ Undeclared(file.recs[i]))
        => /\ pc = "done"
           /\ rc # 0
           /\ err = "Invalid key"
           /\ pos = i
           /\ \A j \in DOMAIN wpts : j >= i => PutsAt(j) = {}
           /\ \A k \in DOMAIN trace :
                 trace[k].by = "load" => trace[k].pos <= i

\* The second record holds an undeclared key inside properties; the first
\* item was written before apply stopped
C27_Witness ==
    /\ pc = "done"
    /\ err = "Invalid key"
    /\ pos = 2
    /\ ChecksPassed(2)
    /\ DOMAIN file.recs[2] = {"id", "properties"}
    /\ "bogus" \in DOMAIN file.recs[2].properties
    /\ Cardinality(PutsAt(1)) = 1
    /\ PutsAt(2) = {}

Selected ==
    {wpts[i] : i \in DOMAIN wpts}

\* Call g is the fetch apply made at position i, and apply made no call
\* between it and call k
FetchBefore(g, k, i) ==
    /\ trace[g].op = "get_object"
    /\ trace[g].by = "load"
    /\ trace[g].pos = i
    /\ trace[g].id = wpts[i]
    /\ \A m \in (g + 1) .. (k - 1) : trace[m].by # "load"

\* C28: apply writes only selected items, the item of the position it is at,
\* at most once per position and in ascending order of position; the call
\* of apply before each write is the fetch of that item at that position, in
\* which the server's revision was the one of the record at that position;
\* and no item outside the selection is fetched or written.
C28_WritesFollowFetches ==
    \A k \in DOMAIN trace :
        /\ trace[k].by \in {"dump", "load"} => trace[k].id \in Selected
        /\ trace[k].op = "put_object"
           => /\ trace[k].pos \in DOMAIN wpts
              /\ trace[k].id = wpts[trace[k].pos]
              /\ \A m \in 1 .. (k - 1) :
                    trace[m].op = "put_object" => trace[m].pos < trace[k].pos
              /\ \E g \in 1 .. (k - 1) : FetchBefore(g, k, trace[k].pos)
              /\ RevisionPassed(trace[k].pos)

\* One item is selected and written, with a change by another actor between
\* its fetch and its write; the other item is changed by that actor and
\* neither fetched nor written by the command
C28_Witness ==
    /\ pc = "done"
    /\ Len(wpts) = 1
    /\ Cardinality(PutsAt(1)) = 1
    /\ \E j \in Ids \ Selected :
          \E k \in DOMAIN trace :
             /\ trace[k].op = "external_change"
             /\ trace[k].id = j
             /\ \E g \in LoadGetsAt(1) : \E p \in PutsAt(1) : g < k /\ k < p

\* The revision a record or an object carries, 0 when it carries none
RevOf(r) ==
    IF "properties" \in DOMAIN r /\ "revision" \in DOMAIN r.properties
    THEN r.properties.revision
    ELSE 0

\* The id a record carries, 0 when it carries none
IdOf(r) ==
    IF "id" \in DOMAIN r THEN r.id ELSE 0

\* Every written object carries the revision and the id of the object
\* fetched at its position
WritesKeepRevisionAndId ==
    \A k \in DOMAIN trace :
        trace[k].op = "put_object"
        => /\ RevOf(putObjs[PutIndex(k)]) = RevOf(getObjs[trace[k].pos])
           /\ RevOf(getObjs[trace[k].pos]) # 0
           /\ putObjs[PutIndex(k)].id = getObjs[trace[k].pos].id

\* The positions apply can be at: the file has a record for each
Positions ==
    IF file.kind = "list" /\ snap.kind = "list"
       /\ Len(file.recs) = Len(wpts)
    THEN DOMAIN wpts
    ELSE {}

\* The editor changed the revision or the id of record i of the snapshot
EditedRevisionOrId(i) ==
    /\ i \in DOMAIN snap.recs
    /\ \/ RevOf(file.recs[i]) # RevOf(snap.recs[i])
       \/ IdOf(file.recs[i]) # IdOf(snap.recs[i])

\* C29 as stated: the written revision and id are the fetched ones, and a
\* record whose revision or id was edited is not written.
C29_AsStated ==
    /\ WritesKeepRevisionAndId
    /\ \A i \in Positions : EditedRevisionOrId(i) => PutsAt(i) = {}

\* C29: the written revision and id are the fetched ones, and a record whose
\* revision is not the one just fetched, or whose id is not the fetched id,
\* is not written.
C29_WrittenRevisionIsFetched ==
    /\ WritesKeepRevisionAndId
    /\ \A i \in Positions :
          (/\ i \in DOMAIN getObjs
           /\ \/ RevOf(file.recs[i]) # RevOf(getObjs[i])
              \/ IdOf(file.recs[i]) # getObjs[i].id)
          => PutsAt(i) = {}

\* The item changed on the server after the dump and the editor set the
\* record's revision to the new one: the record is written
C29_Witness ==
    /\ pc = "done"
    /\ 1 \in Positions
    /\ EditedRevisionOrId(1)
    /\ RevOf(file.recs[1]) = RevOf(getObjs[1])
    /\ Cardinality(PutsAt(1)) = 1
    /\ trace[Len(trace)].ok

---------------------------------------------------------------------------
(* Properties of the order of the working set (SpecSort) *)

\* The i-th smallest id of the selection, repeats counted
NthSmallest(i) ==
    CHOOSE j \in Ids :
        /\ Cardinality({k \in DOMAIN sel : sel[k] < j}) < i
        /\ i <= Cardinality({k \in DOMAIN sel : sel[k] <= j})

\* C15: in the dump and in the apply the working set is the selection sorted
\* by id: the i-th record of the snapshot describes the item with the i-th
\* smallest id, and apply fetches that same item at position i, whatever the
\* order the objects were found in.
C15_PositionsFollowIds ==
    /\ pc # "select"
       => /\ Len(wpts) = Len(sel)
          /\ \A i \in DOMAIN wpts : wpts[i] = NthSmallest(i)
    /\ snap.kind = "list"
       => /\ Len(snap.recs) = Len(sel)
          /\ \A i \in DOMAIN snap.recs : snap.recs[i].id = NthSmallest(i)
    /\ \A k \in DOMAIN trace :
          trace[k].op = "get_object" => trace[k].id = NthSmallest(trace[k].pos)
    /\ \A i \in DOMAIN getObjs : getObjs[i].id = NthSmallest(i)

\* The objects were found in descending order of id in the apply, and every
\* record was applied to the item it was dumped from
C15_Witness ==
    /\ pc = "done"
    /\ rc = 0
    /\ Len(sel) = NumItems
    /\ sel[1] > sel[NumItems]
    /\ snap.kind = "list"
    /\ snap.recs[1].id < snap.recs[NumItems].id
    /\ \A i \in DOMAIN sel :
          \E k \in DOMAIN trace :
             /\ trace[k].op = "put_object"
             /\ trace[k].pos = i
             /\ trace[k].id = snap.recs[i].id

---------------------------------------------------------------------------
(* Properties of the dump (SpecEdit) *)

\* C16: every record the dump writes has exactly the keys id and properties;
\* id is the id of the item of its position, and properties holds exactly
\* the keys icon, notes, public, title and revision that the object fetched
\* holds in its properties, each with the fetched value.
C16_DumpProjection ==
    [][snap' # snap =>
          /\ snap'.kind = "list"
          /\ file' = snap'
          /\ Len(snap'.recs) = Len(wpts)
          /\ \A i \in DOMAIN wpts :
                LET r == snap'.recs[i]
                    fetched == server[wpts[i]]
                IN  /\ DOMAIN r = {"id", "properties"}
                    /\ r.id = wpts[i]
                    /\ r.id = fetched.id
                    /\ DOMAIN r.properties
                       = (DOMAIN fetched.properties) \cap DeclaredProps
                    /\ \A key \in DOMAIN r.properties :
                          r.properties[key] = fetched.properties[key]]_vars

\* A dump of the whole selection, after a change by another actor: the
\* record holds the changed title and leaves out time_created and geometry
C16_Witness ==
    /\ snap.kind = "list"
    /\ Len(snap.recs) = NumItems
    /\ nExt > 0
    /\ \E i \in DOMAIN snap.recs :
          /\ snap.recs[i].properties.title = 2
          /\ "revision" \in DOMAIN snap.recs[i].properties
          /\ "time_created" \notin DOMAIN snap.recs[i].properties
          /\ "time_created" \in DOMAIN server[wpts[i]].properties
          /\ "geometry" \in DOMAIN server[wpts[i]]

---------------------------------------------------------------------------
(* Properties of make_tree and resolve_tree (SpecTree, SpecTreeFair) *)

\* make_tree returned a tree for the folders listed
TreeBuilt ==
    pc \in {"resolve", "done"} /\ err = ""

FolderIds ==
    1 .. Len(folders)

\* The ids in the subfolder map of a node
SubIds(node) ==
    IF "subfolders" \in DOMAIN node
    THEN {node.subfolders[k] : k \in DOMAIN node.subfolders}
    ELSE {}

\* The node a listed folder belongs under: its parent, the root (0) when the
\* parent is absent or null
ParentOf(i) ==
    IF "parent" \in DOMAIN folders[i] /\ folders[i].parent # 0
    THEN folders[i].parent
    ELSE 0

\* C17: in the tree make_tree returns, the subfolder map of the root holds
\* exactly the folders with no parent, the map of every folder holds exactly
\* the folders whose parent it is, no map holds an id twice, and every
\* folder is in exactly one map.
C17_TreeLinksParents ==
    TreeBuilt =>
        /\ DOMAIN tree = {0} \cup FolderIds
        /\ \A n \in DOMAIN tree :
              /\ SubIds(tree[n]) = {i \in FolderIds : ParentOf(i) = n}
              /\ Len(subfolders_of(tree[n])) = Cardinality(SubIds(tree[n]))
        /\ \A i \in FolderIds :
              /\ tree[i].id = i
              /\ Cardinality({n \in DOMAIN tree : i \in SubIds(tree[n])}) = 1

\* A folder with no parent key holds another folder, next to a folder whose
\* parent is None
C17_Witness ==
    /\ TreeBuilt
    /\ Len(folders) = MaxFolders
    /\ \E i, j, k \in FolderIds :
          /\ "parent" \notin DOMAIN folders[i]
          /\ folders[j].id # i
          /\ "parent" \in DOMAIN folders[j]
          /\ folders[j].parent = 0
          /\ "parent" \in DOMAIN folders[k]
          /\ folders[k].parent = i
          /\ SubIds(tree[0]) = {i, j}
          /\ SubIds(tree[i]) = {k}

\* resolve_tree has fetched folder i
Fetched(i) ==
    \E k \in DOMAIN trace : trace[k].op = "get_object" /\ trace[k].id = i

\* C18: a folder that resolve_tree has resolved holds the fields of the
\* folder fetched and no other, but for its subfolder map, which is the one
\* make_tree linked; under every node, resolved or not, the children are
\* those make_tree linked.
C18_ResolveKeepsSubfolders ==
    TreeBuilt =>
        /\ \A n \in DOMAIN tree :
              subfolders_of(tree[n]) = subfolders_of(make_tree(folders).heap[n])
        /\ \A i \in FolderIds :
              Fetched(i)
              => /\ DOMAIN tree[i] = DOMAIN FolderObject(i) \cup {"subfolders"}
                 /\ \A key \in DOMAIN FolderObject(i) :
                       tree[i][key] = FolderObject(i)[key]

\* Every folder is resolved, and one that holds subfolders kept them while
\* its title and parent went
C18_Witness ==
    /\ pc = "done"
    /\ err = ""
    /\ Len(folders) = MaxFolders
    /\ \A i \in FolderIds : Fetched(i)
    /\ \E i \in FolderIds :
          /\ SubIds(tree[i]) # {}
          /\ "title" \notin DOMAIN tree[i]
          /\ "parent" \notin DOMAIN tree[i]
          /\ "properties" \in DOMAIN tree[i]

RECURSIVE Up(_, _)
\* The node k steps up from node n, the root once it is reached
Up(n, k) ==
    IF k = 0 \/ n = 0 THEN n ELSE Up(ParentOf(n), k - 1)

\* Every parent is listed and no folder is above itself
Acyclic ==
    /\ \A i \in FolderIds : ParentOf(i) \in {0} \cup FolderIds
    /\ \A i \in FolderIds : Up(i, Len(folders)) = 0

\* The calls that fetched folder i
FetchesOf(i) ==
    {k \in DOMAIN trace : trace[k].op = "get_object" /\ trace[k].id = i}

\* C19: for an acyclic folder list the command comes to its end, with every
\* folder fetched exactly once, and it never fetches a folder twice nor
\* before the folder's parent.
C19_ResolveTerminates ==
    /\ [](Acyclic =>
            /\ \A i \in FolderIds :
                  /\ Cardinality(FetchesOf(i)) <= 1
                  /\ (Fetched(i) /\ ParentOf(i) # 0)
                     => \E k \in FetchesOf(ParentOf(i)) :
                           \A m \in FetchesOf(i) : k < m
            /\ pc = "done"
               => /\ err = ""
                  /\ \A i \in FolderIds : Cardinality(FetchesOf(i)) = 1)
    /\ <>(pc = "done")

\* A chain of folders, the deepest listed first, all fetched
C19_Witness ==
    /\ pc = "done"
    /\ err = ""
    /\ Acyclic
    /\ Len(folders) = MaxFolders
    /\ ParentOf(1) = 2
    /\ ParentOf(2) = MaxFolders
    /\ \A i \in FolderIds : Cardinality(FetchesOf(i)) = 1

---------------------------------------------------------------------------
(* Properties of the interactive edit (SpecInteractive) *)

\* The editor has exited and edit has compared the modification times
MtimeChecked ==
    pc \notin {"interactive", "editor", "check"}

\* C20: once the editor has exited with the file's modification time equal
\* to the one recorded after the dump, the command has ended with status 0
\* and its message: _load_for_edit never started (the file was not read
\* again), and no get or put was made for the apply.
C20_UnchangedMtimeSkipsApply ==
    (MtimeChecked /\ mtime = orig_mtime)
    => /\ pc = "done"
       /\ rc = 0
       /\ err = ""
       /\ Said(NoChangesMade, 0)
       /\ pos = 0
       /\ NoLoadCalls
       /\ NoPuts
       /\ getObjs = << >>
       /\ putObjs = << >>

\* The editor changed a record within the resolution of the file's clock:
\* the times are equal and the change is not applied
C20_Witness ==
    /\ MtimeChecked
    /\ mtime = orig_mtime
    /\ pc = "done"
    /\ file # snap
    /\ nEdits > 0
    /\ \E k \in DOMAIN trace : trace[k].by = "dump"

---------------------------------------------------------------------------
(* What the edit command reports of an apply that stopped (SpecReport) *)

\* The accepted writes, as indexes of trace
AcceptedPuts ==
    {k \in DOMAIN trace : trace[k].op = "put_object" /\ trace[k].ok}

\* A fatal error stopped apply after it had written at least one item
StoppedPartWay ==
    /\ pc = "done"
    /\ rc = 1
    /\ err \in {"Invalid key", "KeyError", "server rejected changes"}
    /\ AcceptedPuts # {}

\* Every accepted write is still what the server holds, unless the item was
\* written or changed by another actor later
Preserved ==
    \A k \in AcceptedPuts :
        Untouched(trace[k].id, k) => server[trace[k].id] = putObjs[PutIndex(k)]

\* The output lets the caller count the items that succeeded: one 'Updated'
\* line for each accepted write
ToldHowMany ==
    Cardinality({k \in DOMAIN out : out[k].msg = "Updated"})
    = Cardinality(AcceptedPuts)

\* C26 as stated: when a fatal error stops apply part-way, the items already
\* applied are preserved and the caller is told how many succeeded.
C26_AsStated ==
    StoppedPartWay => (Preserved /\ ToldHowMany)

---------------------------------------------------------------------------
(* Properties of the commands run with --dry-run, of archive and of add
   (SpecSelect, SpecAdd) *)

\* The client calls that change something on the server
MutatingOps ==
    {"delete_object", "add_object_to_folder", "remove_object_from_folder",
     "put_object", "set_objects_archive", "create_object"}

\* C21: a command that ran with --dry-run (remove, move, rename, archive,
\* unarchive, waypoint add or folder add) made no mutating call on the
\* client, whatever it selected.
C21_DryRunMutatesNothing ==
    (pc = "done" /\ args.dry_run)
    => \A k \in DOMAIN trace : trace[k].op \notin MutatingOps

\* A dry run of rename on an object that exists: nothing is put
C21_Witness ==
    /\ pc = "done"
    /\ args.cmd = "rename"
    /\ args.dry_run
    /\ found.exc = ""
    /\ Len(found.objs) = 1
    /\ trace = << >>
    /\ Said("Dry run", 0)
    /\ rc = 0

ArchiveRan ==
    pc = "done" /\ args.cmd \in {"archive", "unarchive"}

\* C22: archive and unarchive make exactly one set_objects_archive call, with
\* the ids of all the objects selected and the flag of the command, when the
\* selection is not empty and the run is not a dry run; they make no call
\* and exit non-zero when the selection raises the safety abort, and make no
\* call and exit zero when nothing matched.
C22_OneArchiveCall ==
    ArchiveRan =>
        /\ (found.exc = "" /\ found.objs # << >> /\ ~args.dry_run)
           => /\ Len(trace) = 1
              /\ trace[1].op = "set_objects_archive"
              /\ trace[1].ids = [i \in DOMAIN found.objs |-> found.objs[i].id]
              /\ trace[1].archive = (args.cmd = "archive")
              /\ rc = 0
        /\ found.exc = "_Safety" => (trace = << >> /\ rc # 0)
        /\ (found.exc = "" /\ found.objs = << >>) => (trace = << >> /\ rc = 0)

\* unarchive of two objects in one call
C22_Witness ==
    /\ ArchiveRan
    /\ args.cmd = "unarchive"
    /\ ~args.dry_run
    /\ found.exc = ""
    /\ Len(found.objs) = 2
    /\ found.objs[1].id # found.objs[2].id
    /\ Len(trace) = 1
    /\ trace[1].ids = <<found.objs[1].id, found.objs[2].id>>
    /\ trace[1].archive = FALSE

AddRan ==
    pc = "done" /\ args.cmd = "waypoint add"

\* The place of a call of waypoint add in the order the claim gives
AddRank(c) ==
    IF c.op = "get_object" THEN 1
    ELSE IF c.op = "create_object" /\ c.id = Created("waypoint") THEN 2
    ELSE IF c.op = "create_object" THEN 3
    ELSE 4

\* C25: waypoint add looks the existing folder up, then creates the
\* waypoint, then creates the new folder, then adds the waypoint to the
\* folder, each at most once; when the existing folder is not found nothing
\* is created or added, and when the creation of the waypoint fails no folder
\* is created and nothing is added to a folder; both exit non-zero.
C25_AddOrder ==
    AddRan =>
        /\ \A k, m \in DOMAIN trace :
              k < m => AddRank(trace[k]) < AddRank(trace[m])
        /\ (args.valid /\ args.existing_folder # ""
            /\ ~\E f \in Folders : f.name = args.existing_folder)
           => /\ \A k \in DOMAIN trace : trace[k].op \notin MutatingOps
              /\ rc # 0
        /\ (\E k \in DOMAIN trace :
               /\ trace[k].op = "create_object"
               /\ trace[k].id = Created("waypoint")
               /\ ~trace[k].ok)
           => /\ \A k \in DOMAIN trace :
                    /\ trace[k].op # "add_object_to_folder"
                    /\ trace[k].op = "create_object"
                       => trace[k].id = Created("waypoint")
              /\ rc # 0

\* The existing folder was found, the creation of the waypoint failed, and
\* the new folder asked for was not created
C25_Witness ==
    /\ AddRan
    /\ args.existing_folder = "folder1"
    /\ args.new_folder # ""
    /\ ~args.dry_run
    /\ Len(trace) = 2
    /\ trace[1].op = "get_object"
    /\ trace[2].op = "create_object"
    /\ ~trace[2].ok
    /\ rc = 1

---------------------------------------------------------------------------
(* Properties of folder remove (SpecFolderRemove) *)

FolderRemoveRan ==
    pc = "done" /\ args.cmd = "folder remove" /\ found.exc = ""

\* The folder holds tracks, waypoints, child folders or maps
HoldsSomething(obj) ==
    \/ obj.tracks # << >>
    \/ obj.waypoints # << >>
    \/ obj.children # << >>
    \/ obj.maps # << >>

DeleteCalls(i) ==
    {k \in DOMAIN trace : trace[k].op = "delete_object" /\ trace[k].id = i}

\* The answers that are y or yes once stripped and lowered
SaidYes(answer) ==
    answer \in {<<"y">>, <<" ", "Y", "e", "s", " ">>}

\* C23: folder remove deletes a folder that holds something only if --force
\* was given or the user answered y or yes at the prompt of a terminal;
\* without a terminal and without --force such a folder is skipped, with no
\* delete_object call for it; an empty folder found is deleted whatever the
\* terminal and the answers (unless the run is a dry run).
C23_NonEmptyFolderNeedsConsent ==
    FolderRemoveRan =>
        \A k \in DOMAIN found.objs :
            LET obj == found.objs[k]
            IN  /\ (HoldsSomething(obj) /\ DeleteCalls(obj.id) # {})
                   => \/ args.force
                      \/ args.tty /\ SaidYes(args.answers[obj.id])
                /\ (HoldsSomething(obj) /\ ~args.tty /\ ~args.force)
                   => /\ DeleteCalls(obj.id) = {}
                      /\ Said("is not empty; skipping", obj.id)
                /\ (~HoldsSomething(obj) /\ ~args.dry_run)
                   => DeleteCalls(obj.id) # {}

\* At a terminal, a folder that holds child folders is deleted on the
\* answer ' Yes ' and another that holds maps is kept on the answer 'n'
C23_Witness ==
    /\ FolderRemoveRan
    /\ args.tty
    /\ ~args.force
    /\ ~args.dry_run
    /\ Len(found.objs) = 2
    /\ found.objs[1].children # << >>
    /\ args.answers[found.objs[1].id] = <<" ", "Y", "e", "s", " ">>
    /\ DeleteCalls(found.objs[1].id) # {}
    /\ found.objs[2].maps # << >>
    /\ args.answers[found.objs[2].id] = <<"n">>
    /\ DeleteCalls(found.objs[2].id) = {}

---------------------------------------------------------------------------
(* Properties of upload (SpecUpload) *)

UploadRan ==
    pc = "done" /\ args.cmd = "upload"

\* The elements of a sequence
Elems(q) ==
    {q[k] : k \in DOMAIN q}

\* Call p of trace is the accepted update of a destination folder that
\* holds the uploaded waypoints and tracks, and what the destination held
UpdateAccepted(p) ==
    /\ trace[p].op = "put_object"
    /\ trace[p].ok
    /\ trace[p].id # args.uploaded.id
    /\ Elems(args.uploaded.waypoints) \subseteq Elems(trace[p].obj.waypoints)
    /\ Elems(args.uploaded.tracks) \subseteq Elems(trace[p].obj.tracks)
    /\ args.new_folder = ""
       => /\ Elems(objs[1].waypoints) \subseteq Elems(trace[p].obj.waypoints)
          /\ Elems(objs[1].tracks) \subseteq Elems(trace[p].obj.tracks)

\* C24: upload deletes a folder only after the update of the destination
\* folder, carrying the uploaded waypoints and tracks, was accepted, and the
\* folder it deletes is the upload folder; when the creation of the new
\* destination folder fails or the update is rejected, no folder is deleted
\* and the exit status is non-zero.
C24_DeleteAfterAcceptedMove ==
    UploadRan =>
        /\ \A k \in DOMAIN trace :
              trace[k].op = "delete_object"
              => /\ trace[k].id = args.uploaded.id
                 /\ \E p \in 1 .. (k - 1) : UpdateAccepted(p)
        /\ (\E k \in DOMAIN trace :
               /\ trace[k].op \in {"create_object", "put_object"}
               /\ ~trace[k].ok)
           => /\ \A k \in DOMAIN trace : trace[k].op # "delete_object"
              /\ rc # 0

\* The uploaded waypoints and track went to an existing folder that held a
\* waypoint, and the upload folder was deleted last
C24_Witness ==
    /\ UploadRan
    /\ args.existing_folder = "folder1"
    /\ args.new_folder = ""
    /\ args.uploaded.waypoints = <<1, 2>>
    /\ args.uploaded.tracks = <<1>>
    /\ objs[1].waypoints = <<3>>
    /\ rc = 0
    /\ trace[Len(trace)].op = "delete_object"
    /\ UpdateAccepted(Len(trace) - 1)
    /\ trace[Len(trace) - 1].obj.waypoints = <<3, 1, 2>>

---------------------------------------------------------------------------
(* resolve_tree on folder lists with cycles (SpecTreeFair) *)

\* Every parent named is a folder of the list
ParentsExist ==
    \A i \in FolderIds : ParentOf(i) \in {0} \cup FolderIds

\* Going up from folder i comes to the root: i is on no cycle and below none
UnderRoot(i) ==
    Up(i, Len(folders)) = 0

RECURSIVE Below(_, _)
\* The folders within d levels under node n of the tree
Below(n, d) ==
    IF d = 0 THEN {}
    ELSE SubIds(tree[n])
         \cup UNION {Below(c, d - 1) : c \in SubIds(tree[n])}

\* The folders of the tree resolve_tree returns
InTree ==
    Below(0, Len(folders))

\* C30: for every folder list whose parents exist, cyclic or not, the
\* command comes to its end; a folder on a cycle or below one is never
\* fetched and is not in the tree under the root, and every folder under the
\* root is fetched exactly once.
C30_CyclesAreLeftOut ==
    /\ [](ParentsExist =>
            /\ \A i \in FolderIds :
                  /\ Fetched(i) => UnderRoot(i)
                  /\ Cardinality(FetchesOf(i)) <= 1
            /\ pc = "done"
               => /\ err = ""
                  /\ InTree = {i \in FolderIds : UnderRoot(i)}
                  /\ \A i \in FolderIds :
                        Cardinality(FetchesOf(i))
                        = IF UnderRoot(i) THEN 1 ELSE 0)
    /\ <>(pc = "done")

\* A folder that is its own parent and a folder below it are left out; a
\* folder at the root is fetched
C30_Witness ==
    /\ pc = "done"
    /\ err = ""
    /\ ParentsExist
    /\ \E i, j, k \in FolderIds :
          /\ ParentOf(i) = i
          /\ j # i
          /\ ParentOf(j) = i
          /\ ParentOf(k) = 0
          /\ InTree = {k}
          /\ FetchesOf(i) = {}
          /\ FetchesOf(j) = {}
          /\ Cardinality(FetchesOf(k)) = 1

====
